---- MODULE Spec2Model ----
(***************************************************************************)
(* Model of the investing score card engine                                *)
(* (custom_components/investing_score_card/engine.py) and of the CSV       *)
(* scorer (scorecard.py).                                                  *)
(*                                                                         *)
(* Representation of values                                                *)
(*   - Python None is <<>>, a present value x is <<x>> (an optional).      *)
(*   - Text that the code parses or copies from parsed text (tickers,      *)
(*     custom_tickers, asset names) is a sequence of one-character         *)
(*     strings; other text is a TLA+ string.                               *)
(*   - A sector / industry text is the set of the classifier keywords it   *)
(*     contains (the code only ever asks "keyword in text").               *)
(*   - Numbers are exact fixed-point integers:                             *)
(*       metric inputs             whole units (percent, ratio)            *)
(*       band unit scores          hundredths                              *)
(*       component points          hundredths of a point                   *)
(*       score_total, components,                                          *)
(*       opportunity_score,                                                *)
(*       data_completeness_pct     tenths   (the code rounds to 1 place)   *)
(*       trailing multiples        thousandths                             *)
(*       price                     hundredths                              *)
(*       fair multiple (unrounded) ten-thousandths                         *)
(*       actual/fair/ratio in rows hundredths (the code rounds to 2)       *)
(*     A quotient that the code keeps unrounded (the total before          *)
(*     rounding, the multiple ratio) is a pair <<numerator, denominator>>. *)
(*     round() is round-half-to-even on the exact value.                   *)
(*   - Floating point: a score total is summed and divided in binary       *)
(*     floating point, so the value the code rounds and grades differs     *)
(*     from the exact quotient by a rounding error far smaller than a      *)
(*     tenth.  The model keeps the exact quotient and the sign err of that *)
(*     error (FloatErrs): the sign matters exactly when the quotient lies  *)
(*     on a rounding tie or on a grade threshold, and it depends on the    *)
(*     order in which the points are added.                                *)
(***************************************************************************)
EXTENDS Integers, Sequences, FiniteSets, TLC

VARIABLES
    settings,                   \* build_snapshot: the settings argument
    selected_assets,            \* build_snapshot: _resolve_assets(settings)
    feed,                       \* what the market data source holds for the i-th asset
    assets,                     \* build_snapshot: rows appended so far
    failures,                   \* number of placeholder rows so far
    pc,                         \* position in build_snapshot / in a unit call
    snapshot,                   \* the returned Snapshot (once pc = "done")
    call,                       \* unit specification: function name and arguments
    ret,                        \* unit specification: the returned value
    coord,                      \* the coordinator: its store, its last refresh
    hass                        \* hass.data[DOMAIN], the service registry, the last call

vars ==
    <<settings, selected_assets, feed, assets, failures, pc, snapshot, call, ret, coord, hass>>

(***************************************************************************)
(* Optionals and dict access                                               *)
(***************************************************************************)
None == <<>>
Some(x) == <<x>>
IsNone(o) == o = <<>>
Val(o) == o[1]

\* dict.get(key): a missing key reads as None
Get(row, key) == IF key \in DOMAIN row THEN row[key] ELSE None

(***************************************************************************)
(* Arithmetic helpers                                                      *)
(***************************************************************************)
Max(a, b) == IF a >= b THEN a ELSE b
Min(a, b) == IF a <= b THEN a ELSE b

\* round(n / d) to an integer, ties to even (d > 0, n >= 0)
Round(n, d) ==
    LET q == n \div d
        r == n % d
    IN  IF 2 * r < d THEN q
        ELSE IF 2 * r > d THEN q + 1
        ELSE IF q % 2 = 0 THEN q ELSE q + 1

RECURSIVE GCD(_, _)
GCD(a, b) == IF b = 0 THEN a ELSE GCD(b, a % b)

\* the quotient n / d as a pair in lowest terms (n >= 0, d > 0)
Quotient(n, d) == <<n \div GCD(n, d), d \div GCD(n, d)>>

RECURSIVE SumSeq(_)
SumSeq(s) == IF s = <<>> THEN 0 ELSE Head(s) + SumSeq(Tail(s))

\* s[:n]
Take(s, n) == SubSeq(s, 1, Min(n, Len(s)))

(***************************************************************************)
(* Text: str.strip(), str.upper(), str.split(",")                          *)
(***************************************************************************)
LowerCase == <<"a","b","c","d","e","f","g","h","i","j","k","l","m",
               "n","o","p","q","r","s","t","u","v","w","x","y","z">>
UpperCase == <<"A","B","C","D","E","F","G","H","I","J","K","L","M",
               "N","O","P","Q","R","S","T","U","V","W","X","Y","Z">>
Whitespace == {" ", "\t"}

UpperChar(c) ==
    IF \E i \in 1..Len(LowerCase) : LowerCase[i] = c
    THEN UpperCase[CHOOSE i \in 1..Len(LowerCase) : LowerCase[i] = c]
    ELSE c

Upper(s) == [i \in 1..Len(s) |-> UpperChar(s[i])]

LowerChar(c) ==
    IF \E i \in 1..Len(UpperCase) : UpperCase[i] = c
    THEN LowerCase[CHOOSE i \in 1..Len(UpperCase) : UpperCase[i] = c]
    ELSE c

Lower(s) == [i \in 1..Len(s) |-> LowerChar(s[i])]

\* word in s
Contains(s, word) ==
    \E i \in 1..(Len(s) - Len(word) + 1) : SubSeq(s, i, i + Len(word) - 1) = word

RECURSIVE LStrip(_)
LStrip(s) == IF s # <<>> /\ Head(s) \in Whitespace THEN LStrip(Tail(s)) ELSE s

RECURSIVE RStrip(_)
RStrip(s) ==
    IF s # <<>> /\ s[Len(s)] \in Whitespace THEN RStrip(SubSeq(s, 1, Len(s) - 1)) ELSE s

Strip(s) == RStrip(LStrip(s))

RECURSIVE SplitFrom(_, _)
\* raw.split(","), given the part collected so far
SplitFrom(s, part) ==
    IF s = <<>> THEN <<part>>
    ELSE IF Head(s) = "," THEN <<part>> \o SplitFrom(Tail(s), <<>>)
    ELSE SplitFrom(Tail(s), Append(part, Head(s)))

SplitComma(s) == SplitFrom(s, <<>>)

InSeq(x, s) == \E i \in 1..Len(s) : s[i] = x

(***************************************************************************)
(* The asset universe: engine.py, AssetConfig and the two fixed lists      *)
(***************************************************************************)
AssetConfig(name, ticker, index_name, benchmark, valuation_ticker, benchmark_fair_pe) ==
    [name |-> name, ticker |-> ticker, index_name |-> index_name, benchmark |-> benchmark,
     valuation_ticker |-> valuation_ticker, benchmark_fair_pe |-> benchmark_fair_pe]

Company(name, ticker, index_name) == AssetConfig(name, ticker, index_name, FALSE, None, None)

DEFAULT_COMPANY_ASSETS == <<
    Company(
        <<"N","v","i","d","i","a">>,
        <<"N","V","D","A">>, "S&P 500"),
    Company(
        <<"A","p","p","l","e">>,
        <<"A","A","P","L">>, "S&P 500"),
    Company(
        <<"M","i","c","r","o","s","o","f","t">>,
        <<"M","S","F","T">>, "S&P 500"),
    Company(
        <<"A","m","a","z","o","n">>,
        <<"A","M","Z","N">>, "S&P 500"),
    Company(
        <<"A","l","p","h","a","b","e","t">>,
        <<"G","O","O","G","L">>, "S&P 500"),
    Company(
        <<"M","e","t","a">>,
        <<"M","E","T","A">>, "S&P 500"),
    Company(
        <<"B","r","o","a","d","c","o","m">>,
        <<"A","V","G","O">>, "S&P 500"),
    Company(
        <<"T","e","s","l","a">>,
        <<"T","S","L","A">>, "S&P 500"),
    Company(
        <<"B","e","r","k","s","h","i","r","e"," ","H","a","t","h","a","w","a","y">>,
        <<"B","R","K","-","B">>, "S&P 500"),
    Company(
        <<"W","a","l","m","a","r","t">>,
        <<"W","M","T">>, "S&P 500"),
    Company(
        <<"E","l","i"," ","L","i","l","l","y">>,
        <<"L","L","Y">>, "S&P 500"),
    Company(
        <<"J","P","M","o","r","g","a","n"," ","C","h","a","s","e">>,
        <<"J","P","M">>, "S&P 500"),
    Company(
        <<"V","i","s","a">>,
        <<"V">>, "S&P 500"),
    Company(
        <<"E","x","x","o","n","M","o","b","i","l">>,
        <<"X","O","M">>, "S&P 500"),
    Company(
        <<"J","o","h","n","s","o","n"," ","&"," ","J","o","h","n","s","o","n">>,
        <<"J","N","J">>, "S&P 500"),
    Company(
        <<"N","o","v","o"," ","N","o","r","d","i","s","k">>,
        <<"N","V","O">>, "OMXC25"),
    Company(
        <<"N","o","r","d","e","a">>,
        <<"N","D","A","-","F","I",".","H","E">>, "OMXC25"),
    Company(
        <<"D","S","V">>,
        <<"D","S","V",".","C","O">>, "OMXC25"),
    Company(
        <<"D","a","n","s","k","e"," ","B","a","n","k">>,
        <<"D","A","N","S","K","E",".","C","O">>, "OMXC25"),
    Company(
        <<"A",".","P","."," ","M","o","l","l","e","r"," ","-"," ","M","a","e","r","s","k">>,
        <<"M","A","E","R","S","K","-","B",".","C","O">>, "OMXC25") >>

\* benchmark_fair_pe in ten-thousandths: 20.0, 21.0, 17.5
DEFAULT_BENCHMARK_ASSETS == <<
    AssetConfig(
        <<"M","S","C","I"," ","W","o","r","l","d"," ","A","C","W","I"," ","(","b","e","n","c","h","m","a","r","k",")">>,
        <<"A","C","W","I">>, "Benchmark", TRUE,
                Some(<<"A","C","W","I">>), Some(200000)),
    AssetConfig(
        <<"S","&","P"," ","5","0","0"," ","(","b","e","n","c","h","m","a","r","k",")">>,
        <<"^","G","S","P","C">>, "Benchmark", TRUE,
                Some(<<"S","P","Y">>), Some(210000)),
    AssetConfig(
        <<"O","M","X","C","2","5"," ","(","b","e","n","c","h","m","a","r","k",")">>,
        <<"^","O","M","X","C","2","5">>, "Benchmark", TRUE,
                Some(<<"X","A","C","T","C","2","5",".","C","O">>), Some(175000)) >>

RECURSIVE ParseParts_NoDedup(_, _)
\* a parse loop without the check of seen
ParseParts_NoDedup(parts, items) ==
    IF parts = <<>> THEN items
    ELSE LET ticker == Upper(Strip(Head(parts)))
         IN  IF ticker = <<>> THEN ParseParts_NoDedup(Tail(parts), items)
             ELSE ParseParts_NoDedup(Tail(parts), Append(items, ticker))

RECURSIVE ParseParts(_, _)
\* the loop of _parse_custom_tickers over the split parts; items doubles as seen
ParseParts(parts, items) ==
    IF parts = <<>> THEN items
    ELSE LET ticker == Upper(Strip(Head(parts)))
         IN  IF ticker = <<>> THEN ParseParts(Tail(parts), items)
             ELSE IF InSeq(ticker, items) THEN ParseParts(Tail(parts), items)
             ELSE ParseParts(Tail(parts), Append(items, ticker))

_parse_custom_tickers(raw) == ParseParts(SplitComma(raw), <<>>)

\* a resolution that drops the custom tickers the default set already holds
_resolve_assets_ExtendDedup(cfg) ==
    LET custom_tickers == _parse_custom_tickers(cfg.custom_tickers)
        custom_assets == [i \in 1..Len(custom_tickers) |->
                             Company(custom_tickers[i], custom_tickers[i], "Custom")]
        fresh == SelectSeq(custom_assets,
                           LAMBDA a : \A i \in 1..Len(DEFAULT_COMPANY_ASSETS) :
                                         DEFAULT_COMPANY_ASSETS[i].ticker # a.ticker)
        selected == IF cfg.list_mode = "custom" THEN custom_assets
                    ELSE IF cfg.list_mode = "extend" THEN DEFAULT_COMPANY_ASSETS \o fresh
                    ELSE DEFAULT_COMPANY_ASSETS
    IN  IF cfg.include_benchmarks THEN selected \o DEFAULT_BENCHMARK_ASSETS ELSE selected

\* a resolution that appends the benchmarks in list_mode default only
_resolve_assets_BenchmarksDefaultOnly(cfg) ==
    LET custom_tickers == _parse_custom_tickers(cfg.custom_tickers)
        custom_assets == [i \in 1..Len(custom_tickers) |->
                             Company(custom_tickers[i], custom_tickers[i], "Custom")]
    IN  IF cfg.list_mode = "custom" THEN custom_assets
        ELSE IF cfg.list_mode = "extend" THEN DEFAULT_COMPANY_ASSETS \o custom_assets
        ELSE IF cfg.include_benchmarks THEN DEFAULT_COMPANY_ASSETS \o DEFAULT_BENCHMARK_ASSETS
        ELSE DEFAULT_COMPANY_ASSETS

_resolve_assets(cfg) ==
    LET custom_tickers == _parse_custom_tickers(cfg.custom_tickers)
        custom_assets == [i \in 1..Len(custom_tickers) |->
                             Company(custom_tickers[i], custom_tickers[i], "Custom")]
        selected == IF cfg.list_mode = "custom" THEN custom_assets
                    ELSE IF cfg.list_mode = "extend" THEN DEFAULT_COMPANY_ASSETS \o custom_assets
                    ELSE DEFAULT_COMPANY_ASSETS
    IN  IF cfg.include_benchmarks THEN selected \o DEFAULT_BENCHMARK_ASSETS ELSE selected

(***************************************************************************)
(* Scoring: engine.py _piecewise .. _compute_score, scorecard.py to_grade  *)
(***************************************************************************)
RECURSIVE PiecewiseFrom_FallsToFirst(_, _, _)
\* a band function that falls through to the first pair's score
PiecewiseFrom_FallsToFirst(value, bands, i) ==
    IF i > Len(bands) THEN bands[1][2]
    ELSE IF value <= bands[i][1] THEN bands[i][2]
    ELSE PiecewiseFrom_FallsToFirst(value, bands, i + 1)

RECURSIVE PiecewiseFrom(_, _, _)
\* the for loop of _piecewise over bands[i..]; falls through to bands[-1][1]
PiecewiseFrom(value, bands, i) ==
    IF i > Len(bands) THEN bands[Len(bands)][2]
    ELSE IF value <= bands[i][1] THEN bands[i][2]
    ELSE PiecewiseFrom(value, bands, i + 1)

\* bands: <<threshold, unit score in hundredths>>
_piecewise(value, bands) == PiecewiseFrom(value, bands, 1)

\* hundredths of a point
_score_component_value(value, bands, weight) == _piecewise(value, bands) * weight

GRADE_SCALE == <<
    <<97, "A+">>, <<93, "A">>, <<90, "A-">>, <<87, "B+">>, <<83, "B">>, <<80, "B-">>,
    <<77, "C+">>, <<73, "C">>, <<70, "C-">>, <<67, "D+">>, <<63, "D">>, <<60, "D-">> >>

RECURSIVE GradeFrom_Exclusive(_, _, _)
\* a grade scale whose thresholds are exclusive
GradeFrom_Exclusive(score, scale, i) ==
    IF i > Len(scale) THEN "F"
    ELSE IF score[1] > scale[i][1] * score[2] THEN scale[i][2]
    ELSE GradeFrom_Exclusive(score, scale, i + 1)

RECURSIVE GradeFrom(_, _, _)
\* the for loop of _grade / to_grade over scale[i..]; score = <<n, d>>, d > 0
GradeFrom(score, scale, i) ==
    IF i > Len(scale) THEN "F"
    ELSE IF score[1] >= scale[i][1] * score[2] THEN scale[i][2]
    ELSE GradeFrom(score, scale, i + 1)

\* engine.py
_grade(score) == GradeFrom(score, GRADE_SCALE, 1)

\* scorecard.py
to_grade(score) == GradeFrom(score, GRADE_SCALE, 1)

REVENUE_BANDS == << <<-20, 0>>, <<-10, 10>>, <<0, 30>>, <<5, 55>>, <<10, 70>>, <<15, 82>>,
                    <<25, 92>>, <<10000, 100>> >>
EPS_BANDS == << <<-40, 0>>, <<-20, 10>>, <<0, 30>>, <<10, 55>>, <<20, 72>>, <<35, 85>>,
                <<50, 94>>, <<10000, 100>> >>
MARGIN_LEVEL_BANDS == << <<0, 0>>, <<5, 15>>, <<10, 30>>, <<15, 50>>, <<20, 70>>, <<25, 83>>,
                         <<30, 93>>, <<10000, 100>> >>
MARGIN_YOY_BANDS == << <<-8, 0>>, <<-4, 12>>, <<-2, 28>>, <<0, 45>>, <<1, 62>>, <<2, 76>>,
                       <<4, 90>>, <<10000, 100>> >>
FCF_BANDS == << <<-50, 0>>, <<-25, 15>>, <<-10, 32>>, <<0, 50>>, <<10, 66>>, <<20, 80>>,
                <<35, 92>>, <<10000, 100>> >>
LEVERAGE_BANDS == << <<0, 100>>, <<1, 88>>, <<2, 72>>, <<3, 52>>, <<4, 30>>, <<5, 15>>,
                     <<10000, 0>> >>

Component(name, s, w) == [name |-> name, s |-> s, w |-> w]

\* a guidance fallback whose weight is not counted as evaluated
GuidanceComponent_Unweighted == Component("guidance", 1200, 0)

\* a guidance component that earns its full weight
GuidanceComponent_Raised == Component("guidance", 2500, 25)

\* the guidance fallback: 12.0 points, 25.0 of weight, always
GuidanceComponent == Component("guidance", 1200, 25)

\* The components _compute_score evaluates, in the order of its code: each adds s to
\* raw_points and w to available_weights (the margin pair adds 12 + 13 = 25.0 at once).
ScoredComponents(metrics) ==
    LET rev == metrics.revenue_yoy_pct
        eps == metrics.eps_yoy_pct
        op_margin == metrics.op_margin_latest_pct
        op_margin_prior == metrics.op_margin_prior_pct
        fcf == metrics.fcf_yoy_pct
        nde == metrics.net_debt_to_ebitda
    IN  (IF ~IsNone(rev)
         THEN <<Component("growth_revenue",
                          _score_component_value(Val(rev), REVENUE_BANDS, 15), 15)>>
         ELSE <<>>)
     \o (IF ~IsNone(eps)
         THEN <<Component("growth_eps",
                          _score_component_value(Val(eps), EPS_BANDS, 15), 15)>>
         ELSE <<>>)
     \o (IF ~IsNone(op_margin) /\ ~IsNone(op_margin_prior)
         THEN <<Component("profit_margin_level",
                          _score_component_value(Val(op_margin), MARGIN_LEVEL_BANDS, 12), 12),
                Component("profit_margin_yoy",
                          _score_component_value(Val(op_margin) - Val(op_margin_prior),
                                                 MARGIN_YOY_BANDS, 13), 13)>>
         ELSE <<>>)
     \o <<GuidanceComponent>>
     \o (IF ~IsNone(fcf)
         THEN <<Component("capital_fcf",
                          _score_component_value(Val(fcf), FCF_BANDS, 10), 10)>>
         ELSE <<>>)
     \o (IF ~IsNone(nde)
         THEN <<Component("capital_leverage",
                          _score_component_value(Val(nde), LEVERAGE_BANDS, 10), 10)>>
         ELSE <<>>)

\* total before rounding, as <<n, d>>: raw_points / available_weights * 100 clamped
\* a total that divides by the full weight 100 instead of the evaluated weight
ScoreTotal_OverFullWeight(raw_points, available_weights) ==
    IF raw_points > 10000 THEN <<100, 1>>
    ELSE IF raw_points < 0 THEN <<0, 1>>
    ELSE <<raw_points, 100>>

ScoreTotal(raw_points, available_weights) ==
    IF available_weights = 0 THEN <<0, 1>>
    ELSE IF raw_points > 100 * available_weights THEN <<100, 1>>
    ELSE IF raw_points < 0 THEN <<0, 1>>
    ELSE <<raw_points, available_weights>>

\* the sign of the floating-point error of a total: below, equal to, above the exact
\* quotient
FloatErrs == {-1, 0, 1}

\* the total n / d moved by less than a thousandth in the direction of err; a total the
\* clamp has set to 0 or 100 is exact
Perturb(total, err) ==
    IF total[1] <= 0 \/ total[1] >= 100 * total[2] THEN total
    ELSE <<100 * total[1] + err, 100 * total[2]>>

\* err: the sign of the floating-point error of raw_points / available_weights * 100
_compute_score(metrics, err) ==
    LET parts == ScoredComponents(metrics)
        raw_points == SumSeq([i \in 1..Len(parts) |-> parts[i].s])
        available_weights == SumSeq([i \in 1..Len(parts) |-> parts[i].w])
        total == Perturb(ScoreTotal(raw_points, available_weights), err)
    IN  [score_total |-> Round(10 * total[1], total[2]),
         grade |-> _grade(total),
         components |-> [n \in {parts[i].name : i \in 1..Len(parts)} |->
                            LET p == CHOOSE p \in {parts[i] : i \in 1..Len(parts)} : p.name = n
                            IN  Round(p.s, 10)],
         data_completeness_pct |-> Round(available_weights * 1000, 100)]

(***************************************************************************)
(* The CSV scorer: scorecard.py                                            *)
(***************************************************************************)
\* a cell of a CSV row is an optional: None is the blank cell
WEIGHTS ==
    [revenue_yoy |-> 15, eps_yoy |-> 15, op_margin_level |-> 12, op_margin_yoy |-> 13,
     guidance |-> 25, fcf_yoy |-> 10, net_debt_to_ebitda |-> 10]

RECURSIVE PiecewiseScoreFrom(_, _, _)
\* the for loop of piecewise_score over bands[i..]
PiecewiseScoreFrom(value, bands, i) ==
    IF i > Len(bands) THEN bands[Len(bands)][2]
    ELSE IF value <= bands[i][1] THEN bands[i][2]
    ELSE PiecewiseScoreFrom(value, bands, i + 1)

piecewise_score(value, bands) == PiecewiseScoreFrom(value, bands, 1)

\* points in hundredths
score_growth_revenue_yoy(v) ==
    piecewise_score(v, << <<-20, 0>>, <<-10, 10>>, <<0, 30>>, <<5, 55>>, <<10, 70>>,
                          <<15, 82>>, <<25, 92>>, <<10000, 100>> >>) * WEIGHTS.revenue_yoy

score_growth_eps_yoy(v) ==
    piecewise_score(v, << <<-40, 0>>, <<-20, 10>>, <<0, 30>>, <<10, 55>>, <<20, 72>>,
                          <<35, 85>>, <<50, 94>>, <<10000, 100>> >>) * WEIGHTS.eps_yoy

score_profitability_margin_level(v) ==
    piecewise_score(v, << <<0, 0>>, <<5, 15>>, <<10, 30>>, <<15, 50>>, <<20, 70>>,
                          <<25, 83>>, <<30, 93>>, <<10000, 100>> >>) * WEIGHTS.op_margin_level

score_profitability_margin_yoy(v_pp) ==
    piecewise_score(v_pp, << <<-8, 0>>, <<-4, 12>>, <<-2, 28>>, <<0, 45>>, <<1, 62>>,
                             <<2, 76>>, <<4, 90>>, <<10000, 100>> >>) * WEIGHTS.op_margin_yoy

\* v: the cell text stripped and lower-cased
score_guidance(v) ==
    IF v \in {"cut", "lowered"} THEN 0
    ELSE IF v \in {"unchanged", "maintained"} THEN 1200
    ELSE IF v = "raised" THEN 2500
    ELSE 1200

score_fcf_yoy(v) ==
    piecewise_score(v, << <<-50, 0>>, <<-25, 15>>, <<-10, 32>>, <<0, 50>>, <<10, 66>>,
                          <<20, 80>>, <<35, 92>>, <<10000, 100>> >>) * WEIGHTS.fcf_yoy

score_net_debt_to_ebitda(v) ==
    piecewise_score(v, << <<0, 100>>, <<1, 88>>, <<2, 72>>, <<3, 52>>, <<4, 30>>,
                          <<5, 15>>, <<10000, 0>> >>) * WEIGHTS.net_debt_to_ebitda

clamp(value, lo, hi) ==
    IF value[1] > hi * value[2] THEN <<hi, 1>>
    ELSE IF value[1] < lo * value[2] THEN <<lo, 1>>
    ELSE value

has_value(row, key) == row[key] # None

REQUIRED_META == <<"prior_report_date", "prior_report_url", "guidance_change">>

REQUIRED_NUMERIC == <<"revenue_yoy_pct", "eps_yoy_pct", "op_margin_latest_pct",
                      "op_margin_prior_pct", "fcf_yoy_pct", "net_debt_to_ebitda">>

\* the (points, weight) pairs compute_row collects, in its order
RowComponents(row) ==
    (IF has_value(row, "revenue_yoy_pct")
     THEN << <<score_growth_revenue_yoy(Val(row.revenue_yoy_pct)), WEIGHTS.revenue_yoy>> >>
     ELSE <<>>)
    \o (IF has_value(row, "eps_yoy_pct")
        THEN << <<score_growth_eps_yoy(Val(row.eps_yoy_pct)), WEIGHTS.eps_yoy>> >>
        ELSE <<>>)
    \o (IF has_value(row, "op_margin_latest_pct") /\ has_value(row, "op_margin_prior_pct")
        THEN << <<score_profitability_margin_level(Val(row.op_margin_latest_pct)),
                  WEIGHTS.op_margin_level>>,
                <<score_profitability_margin_yoy(Val(row.op_margin_latest_pct)
                                                    - Val(row.op_margin_prior_pct)),
                  WEIGHTS.op_margin_yoy>> >>
        ELSE <<>>)
    \o (IF has_value(row, "guidance_change")
        THEN << <<score_guidance(Val(row.guidance_change)), WEIGHTS.guidance>> >>
        ELSE <<>>)
    \o (IF has_value(row, "fcf_yoy_pct")
        THEN << <<score_fcf_yoy(Val(row.fcf_yoy_pct)), WEIGHTS.fcf_yoy>> >>
        ELSE <<>>)
    \o (IF has_value(row, "net_debt_to_ebitda")
        THEN << <<score_net_debt_to_ebitda(Val(row.net_debt_to_ebitda)),
                  WEIGHTS.net_debt_to_ebitda>> >>
        ELSE <<>>)

\* the columns compute_row adds to the row; a number written with one decimal is in
\* tenths, the empty text is None; err: the sign of the floating-point error of
\* raw_points / max_points * 100
compute_row(row, err) ==
    LET present_meta == Cardinality({i \in 1..Len(REQUIRED_META) :
                                        has_value(row, REQUIRED_META[i])})
        present_numeric == Cardinality({i \in 1..Len(REQUIRED_NUMERIC) :
                                           has_value(row, REQUIRED_NUMERIC[i])})
        completeness == Round((present_meta + present_numeric) * 1000,
                              Len(REQUIRED_META) + Len(REQUIRED_NUMERIC))
        margins == has_value(row, "op_margin_latest_pct") /\ has_value(row, "op_margin_prior_pct")
        components == RowComponents(row)
        raw_points == SumSeq([i \in 1..Len(components) |-> components[i][1]])
        max_points == SumSeq([i \in 1..Len(components) |-> components[i][2]])
        total == Perturb(clamp(<<raw_points, max_points>>, 0, 100), err)
        out == [data_completeness_pct |-> completeness,
                score_growth_revenue |->
                    IF has_value(row, "revenue_yoy_pct")
                    THEN Some(Round(score_growth_revenue_yoy(Val(row.revenue_yoy_pct)), 10))
                    ELSE None,
                score_growth_eps |->
                    IF has_value(row, "eps_yoy_pct")
                    THEN Some(Round(score_growth_eps_yoy(Val(row.eps_yoy_pct)), 10))
                    ELSE None,
                score_profit_margin_level |->
                    IF margins
                    THEN Some(Round(score_profitability_margin_level(
                                        Val(row.op_margin_latest_pct)), 10))
                    ELSE None,
                score_profit_margin_yoy |->
                    IF margins
                    THEN Some(Round(score_profitability_margin_yoy(
                                        Val(row.op_margin_latest_pct)
                                            - Val(row.op_margin_prior_pct)), 10))
                    ELSE None,
                score_guidance |->
                    IF has_value(row, "guidance_change")
                    THEN Some(Round(score_guidance(Val(row.guidance_change)), 10))
                    ELSE None,
                score_capital_fcf |->
                    IF has_value(row, "fcf_yoy_pct")
                    THEN Some(Round(score_fcf_yoy(Val(row.fcf_yoy_pct)), 10))
                    ELSE None,
                score_capital_leverage |->
                    IF has_value(row, "net_debt_to_ebitda")
                    THEN Some(Round(score_net_debt_to_ebitda(Val(row.net_debt_to_ebitda)), 10))
                    ELSE None]
    IN  IF components = <<>>
        THEN [k \in DOMAIN out \cup {"score_total", "grade"} |->
                 IF k = "score_total" THEN None ELSE IF k = "grade" THEN "N/A" ELSE out[k]]
        ELSE [k \in DOMAIN out \cup {"score_total", "grade"} |->
                 IF k = "score_total" THEN Some(Round(10 * total[1], total[2]))
                 ELSE IF k = "grade" THEN to_grade(total)
                 ELSE out[k]]

(***************************************************************************)
(* Valuation: engine.py _model_for_sector .. _valuation_label              *)
(***************************************************************************)
\* sector, industry: the sets of keywords the lower-cased texts contain
\* the keywords _model_for_sector looks for, each with its characters
MODEL_KEYWORDS ==
    {<<"credit services", <<"c","r","e","d","i","t"," ","s","e","r","v","i","c","e","s">>>>,
     <<"payment", <<"p","a","y","m","e","n","t">>>>,
     <<"financial", <<"f","i","n","a","n","c","i","a","l">>>>,
     <<"bank", <<"b","a","n","k">>>>,
     <<"insurance", <<"i","n","s","u","r","a","n","c","e">>>>,
     <<"energy", <<"e","n","e","r","g","y">>>>,
     <<"oil", <<"o","i","l">>>>,
     <<"gas", <<"g","a","s">>>>,
     <<"industrial", <<"i","n","d","u","s","t","r","i","a","l">>>>,
     <<"transport", <<"t","r","a","n","s","p","o","r","t">>>>,
     <<"shipping", <<"s","h","i","p","p","i","n","g">>>>}

\* s = (sector or "").lower(), as the set of the keywords that are in s
KeywordsIn(text) == {k[1] : k \in {kw \in MODEL_KEYWORDS : Contains(Lower(text), kw[2])}}

\* a model selection that tests the sector before the industry
_model_for_sector_SectorFirst(sector, industry) ==
    IF "financial" \in sector \/ "bank" \in sector \/ "insurance" \in sector THEN "pb"
    ELSE IF "credit services" \in industry \/ "payment" \in industry THEN "pe"
    ELSE IF "energy" \in sector \/ "oil" \in sector \/ "gas" \in sector THEN "ev_ebitda"
    ELSE IF "industrial" \in sector \/ "transport" \in sector \/ "shipping" \in sector
         THEN "ev_ebitda"
    ELSE "pe"

_model_for_sector(sector, industry) ==
    IF "credit services" \in industry \/ "payment" \in industry THEN "pe"
    ELSE IF "financial" \in sector \/ "bank" \in sector \/ "insurance" \in sector THEN "pb"
    ELSE IF "energy" \in sector \/ "oil" \in sector \/ "gas" \in sector THEN "ev_ebitda"
    ELSE IF "industrial" \in sector \/ "transport" \in sector \/ "shipping" \in sector
         THEN "ev_ebitda"
    ELSE "pe"

_valuation_style(sector, industry) ==
    IF "software" \in industry \/ "semiconductor" \in industry \/ "internet" \in industry
         THEN "tech_hypergrowth"
    ELSE IF "technology" \in sector \/ "electronic" \in industry THEN "tech_quality"
    ELSE IF "financial" \in sector \/ "bank" \in sector \/ "insurance" \in sector
         THEN "financials"
    ELSE IF "energy" \in sector \/ "oil" \in industry \/ "gas" \in industry THEN "energy"
    ELSE IF "industrial" \in sector \/ "transport" \in sector \/ "shipping" \in industry
         THEN "industrials"
    ELSE IF "healthcare" \in sector \/ "pharmaceutical" \in industry \/ "drug" \in industry
         THEN "healthcare"
    ELSE "broad_market"

\* a fair multiple that ignores the benchmark override
_fair_multiple_NoOverride(score, model, style, bench_fair_pe) ==
    IF model = "pe" /\ style = "tech_hypergrowth" THEN 140000 + score * 420
    ELSE IF model = "pe" /\ style = "tech_quality" THEN 110000 + score * 340
    ELSE IF model = "pe" /\ style = "healthcare" THEN 90000 + score * 300
    ELSE IF model = "pe" THEN 70000 + score * 260
    ELSE IF model = "pb" THEN 6000 + score * 18
    ELSE IF model = "ev_ebitda" THEN 30000 + score * 110
    ELSE 100000

\* score in tenths, bench_fair_pe an optional in ten-thousandths; result in ten-thousandths
_fair_multiple(score, model, style, bench_fair_pe) ==
    IF ~IsNone(bench_fair_pe) /\ model = "pe" THEN Val(bench_fair_pe)
    ELSE IF model = "pe" /\ style = "tech_hypergrowth" THEN 140000 + score * 420
    ELSE IF model = "pe" /\ style = "tech_quality" THEN 110000 + score * 340
    ELSE IF model = "pe" /\ style = "healthcare" THEN 90000 + score * 300
    ELSE IF model = "pe" THEN 70000 + score * 260
    ELSE IF model = "pb" THEN 6000 + score * 18
    ELSE IF model = "ev_ebitda" THEN 30000 + score * 110
    ELSE 100000

\* a label that treats a missing ratio as "Fair"
_valuation_label_NoneIsFair(ratio, style) ==
    IF IsNone(ratio) THEN "Fair"
    ELSE LET n == Val(ratio)[1]
             d == Val(ratio)[2]
             wide == style \in {"tech_hypergrowth", "tech_quality"}
             low == IF wide THEN 75 ELSE 85
             high == IF wide THEN 130 ELSE 115
         IN  IF n * 100 <= low * d THEN "Undervalued"
             ELSE IF n * 100 >= high * d THEN "Overvalued"
             ELSE "Fair"

\* a label whose band boundaries are exclusive
_valuation_label_Exclusive(ratio, style) ==
    IF IsNone(ratio) THEN "N/A"
    ELSE LET n == Val(ratio)[1]
             d == Val(ratio)[2]
             wide == style \in {"tech_hypergrowth", "tech_quality"}
             low == IF wide THEN 75 ELSE 85
             high == IF wide THEN 130 ELSE 115
         IN  IF n * 100 < low * d THEN "Undervalued"
             ELSE IF n * 100 > high * d THEN "Overvalued"
             ELSE "Fair"

\* ratio: an optional <<n, d>> with d > 0; the bounds 0.85, 1.15, 0.75, 1.30 in hundredths
_valuation_label(ratio, style) ==
    IF IsNone(ratio) THEN "N/A"
    ELSE LET n == Val(ratio)[1]
             d == Val(ratio)[2]
             wide == style \in {"tech_hypergrowth", "tech_quality"}
             low == IF wide THEN 75 ELSE 85
             high == IF wide THEN 130 ELSE 115
         IN  IF n * 100 <= low * d THEN "Undervalued"
             ELSE IF n * 100 >= high * d THEN "Overvalued"
             ELSE "Fair"

\* model.upper().replace("_", "/")
ModelTag(model) ==
    IF model = "pe" THEN "PE" ELSE IF model = "pb" THEN "PB" ELSE "EV/EBITDA"

\* a bonus that is only a penalty for an overvalued company
RankBonus_NotAvailableIsFair(assessment) ==
    IF assessment = "Undervalued" THEN 30
    ELSE IF assessment = "Overvalued" THEN -20 ELSE 10

\* rank_bonus of _compute_company, in points
RankBonus(assessment) ==
    IF assessment = "Undervalued" THEN 30
    ELSE IF assessment = "Fair" THEN 10 ELSE -20

\* a multiple check that lets a multiple of 0 through
Positive_NonNegative(mult) ==
    IF ~IsNone(mult) /\ Val(mult) < 0 THEN None ELSE mult

\* a trailing multiple that is <= 0 is dropped
Positive(mult) == IF ~IsNone(mult) /\ Val(mult) <= 0 THEN None ELSE mult

\* datetime.fromtimestamp(ts).isoformat(): a text determined by ts; "" is <<>>
IsoFormat(ts) == IF IsNone(ts) THEN <<>> ELSE <<"iso", Val(ts)>>

\* the fields of info that hold a timestamp greater than 0, in the order they are read
RECURSIVE EarningsCandidates(_)
EarningsCandidates(info) ==
    IF info = <<>> THEN <<>>
    ELSE IF ~IsNone(Head(info)) /\ Val(Head(info)) > 0
         THEN <<Val(Head(info))>> \o EarningsCandidates(Tail(info))
    ELSE EarningsCandidates(Tail(info))

\* a resolver that takes the earliest candidate, past or not
_next_earnings_from_info_Earliest(info, now_ts) ==
    LET candidates == EarningsCandidates(info)
        all == {candidates[i] : i \in 1..Len(candidates)}
        chosen == CHOOSE ts \in all : \A u \in all : ts <= u
    IN  IF candidates = <<>> THEN <<IsoFormat(None), None>>
        ELSE <<IsoFormat(Some(chosen)), Some(chosen)>>

\* info: what _safe_int gives for earningsTimestampStart, earningsTimestamp,
\* earningsTimestampEnd and the items of earningsDate; the result is (iso, chosen)
_next_earnings_from_info(info, now_ts) ==
    LET candidates == EarningsCandidates(info)
        all == {candidates[i] : i \in 1..Len(candidates)}
        future == {ts \in all : ts >= now_ts}
        chosen == IF future # {} THEN CHOOSE ts \in future : \A u \in future : ts <= u
                  ELSE CHOOSE ts \in all : \A u \in all : ts >= u
    IN  IF candidates = <<>> THEN <<IsoFormat(None), None>>
        ELSE <<IsoFormat(Some(chosen)), Some(chosen)>>

METRIC_KEYS == {"revenue_yoy_pct", "eps_yoy_pct", "op_margin_latest_pct",
                "op_margin_prior_pct", "fcf_yoy_pct", "net_debt_to_ebitda"}

(***************************************************************************)
(* Rows: engine.py _compute_company, _compute_benchmark, the placeholder   *)
(* m is the bag _extract_financial_metrics returns for the ticker.         *)
(* latest_period / prior_period (labels copied through) are left out.      *)
(***************************************************************************)
\* the points of every source bag are sums the floats hold exactly: error sign 0
_compute_company(asset, m) ==
    LET score == _compute_score(m, 0)
        model0 == _model_for_sector(m.sector, m.industry)
        style == _valuation_style(m.sector, m.industry)
        trailing_pe == Positive(m.trailing_pe)
        pb == Positive(m.price_to_book)
        ev_ebitda == Positive(m.enterprise_to_ebitda)
        actual0 == IF model0 = "pe" THEN trailing_pe
                   ELSE IF model0 = "pb" THEN pb
                   ELSE ev_ebitda
        model == IF ~IsNone(actual0) THEN model0
                 ELSE IF ~IsNone(trailing_pe) THEN "pe"
                 ELSE IF ~IsNone(pb) THEN "pb"
                 ELSE IF ~IsNone(ev_ebitda) THEN "ev_ebitda"
                 ELSE model0
        actual_mult == IF ~IsNone(actual0) THEN actual0
                       ELSE IF ~IsNone(trailing_pe) THEN trailing_pe
                       ELSE IF ~IsNone(pb) THEN pb
                       ELSE IF ~IsNone(ev_ebitda) THEN ev_ebitda
                       ELSE None
        fair_mult == _fair_multiple(score.score_total, model, style, None)
        ratio == IF ~IsNone(actual_mult) /\ fair_mult > 0
                 THEN Some(Quotient(Val(actual_mult) * 10, fair_mult))
                 ELSE None
        has_fair_price == ~IsNone(ratio) /\ ~IsNone(m.price) /\ Val(ratio)[1] > 0
        has_gap == has_fair_price /\ Val(m.price) # 0
        assessment == _valuation_label(ratio, style)
        rank_bonus == RankBonus(assessment)
        opportunity_score == score.score_total + rank_bonus * 10
    IN  [name |-> asset.name,
         ticker |-> asset.ticker,
         index |-> asset.index_name,
         benchmark |-> FALSE,
         sector |-> m.sector,
         industry |-> m.industry,
         price |-> m.price,
         valuation_model |-> ModelTag(model),
         valuation_style |-> style,
         actual_multiple |-> IF ~IsNone(actual_mult)
                             THEN Some(Round(Val(actual_mult), 10)) ELSE None,
         fair_multiple |-> Round(fair_mult, 100),
         multiple_ratio |-> IF ~IsNone(ratio)
                            THEN Some(Round(Val(ratio)[1] * 100, Val(ratio)[2])) ELSE None,
         fair_price |-> IF has_fair_price
                        THEN Some(Round(Val(m.price) * Val(ratio)[2], Val(ratio)[1]))
                        ELSE None,
         valuation_gap_pct |-> IF has_gap
                               THEN Some(Round((Val(ratio)[2] - Val(ratio)[1]) * 1000,
                                               Val(ratio)[1]))
                               ELSE None,
         assessment |-> assessment,
         opportunity_score |-> opportunity_score,
         score_total |-> Some(score.score_total),
         grade |-> score.grade,
         data_completeness_pct |-> Some(score.data_completeness_pct),
         components |-> score.components,
         metrics |-> [k \in METRIC_KEYS |-> m[k]],
         next_earnings_iso |-> IsoFormat(m.next_earnings_ts),
         next_earnings_ts |-> m.next_earnings_ts]

\* a benchmark row that is scored and ranked like a company row
_compute_benchmark_AsCompany(asset, m) ==
    [_compute_company(asset, m) EXCEPT !.benchmark = TRUE]

\* m.price is the last close of the priced ticker, m.trailing_pe the trailing P/E of
\* the valuation ticker
_compute_benchmark(asset, m) ==
    LET price == m.price
        pe == Positive(m.trailing_pe)
        fair == IF ~IsNone(asset.benchmark_fair_pe) /\ Val(asset.benchmark_fair_pe) # 0
                THEN Val(asset.benchmark_fair_pe) ELSE 200000
        ratio == IF ~IsNone(pe) /\ fair > 0 THEN Some(Quotient(Val(pe) * 10, fair)) ELSE None
        has_fair_price == ~IsNone(ratio) /\ ~IsNone(price) /\ Val(price) # 0
        assessment == _valuation_label(ratio, "broad_market")
    IN  [name |-> asset.name,
         ticker |-> asset.ticker,
         index |-> asset.index_name,
         benchmark |-> TRUE,
         sector |-> {"broad market index"},
         industry |-> {"diversified"},
         price |-> price,
         valuation_model |-> "PE",
         valuation_style |-> "broad_market",
         actual_multiple |-> IF ~IsNone(pe) THEN Some(Round(Val(pe), 10)) ELSE None,
         fair_multiple |-> Round(fair, 100),
         multiple_ratio |-> IF ~IsNone(ratio)
                            THEN Some(Round(Val(ratio)[1] * 100, Val(ratio)[2])) ELSE None,
         fair_price |-> IF has_fair_price
                        THEN Some(Round(Val(price) * Val(ratio)[2], Val(ratio)[1]))
                        ELSE None,
         valuation_gap_pct |-> IF has_fair_price
                               THEN Some(Round((Val(ratio)[2] - Val(ratio)[1]) * 1000,
                                               Val(ratio)[1]))
                               ELSE None,
         assessment |-> assessment,
         opportunity_score |-> 0,
         score_total |-> None,
         grade |-> "N/A",
         data_completeness_pct |-> None,
         components |-> <<>>,
         metrics |-> <<>>]

\* a placeholder row that carries a score of 0.0 instead of null
PlaceholderRow_ZeroScore(asset, err) ==
    [name |-> asset.name,
     ticker |-> asset.ticker,
     index |-> asset.index_name,
     benchmark |-> asset.benchmark,
     price |-> None,
     assessment |-> "N/A",
     error |-> err,
     components |-> <<>>,
     metrics |-> <<>>,
     score_total |-> Some(0),
     grade |-> "N/A",
     opportunity_score |-> -9990]

\* the row build_snapshot substitutes when the asset's computation raises err
PlaceholderRow(asset, err) ==
    [name |-> asset.name,
     ticker |-> asset.ticker,
     index |-> asset.index_name,
     benchmark |-> asset.benchmark,
     price |-> None,
     assessment |-> "N/A",
     error |-> err,
     components |-> <<>>,
     metrics |-> <<>>,
     score_total |-> None,
     grade |-> "N/A",
     opportunity_score |-> -9990]

(***************************************************************************)
(* Assembly: engine.py build_snapshot, after the loop                      *)
(***************************************************************************)
\* the number of rows in top_opportunities and in upcoming_earnings_next_5
TOP_N == 10
NEXT_N == 5

RECURSIVE NonBenchmark(_)
\* [a for a in assets if not a.get("benchmark", False)]
NonBenchmark(rows) ==
    IF rows = <<>> THEN <<>>
    ELSE IF "benchmark" \in DOMAIN Head(rows) /\ Head(rows).benchmark
         THEN NonBenchmark(Tail(rows))
    ELSE <<Head(rows)>> \o NonBenchmark(Tail(rows))

\* a ranking key without the score_total tie-break
RankKey_OpportunityOnly(item) ==
    << IF "opportunity_score" \in DOMAIN item THEN item.opportunity_score ELSE -9990, 0 >>

\* (item.get("opportunity_score", -999.0), item.get("score_total") or 0.0)
RankKey(item) ==
    << IF "opportunity_score" \in DOMAIN item THEN item.opportunity_score ELSE -9990,
       IF IsNone(Get(item, "score_total")) THEN 0 ELSE Val(item.score_total) >>

\* tuple comparison k1 >= k2
KeyGE(k1, k2) == k1[1] > k2[1] \/ (k1[1] = k2[1] /\ k1[2] >= k2[2])

RECURSIVE SortRanked_Ascending(_)
\* sorted(rows, key=RankKey) without reverse=True
SortRanked_Ascending(rows) ==
    IF rows = <<>> THEN <<>>
    ELSE LET n == Len(rows)
             done == SortRanked_Ascending(SubSeq(rows, 1, n - 1))
             x == rows[n]
             p == Cardinality({i \in 1..Len(done) : KeyGE(RankKey(x), RankKey(done[i]))})
         IN  SubSeq(done, 1, p) \o <<x>> \o SubSeq(done, p + 1, Len(done))

RECURSIVE SortRanked(_)
\* sorted(rows, key=RankKey, reverse=True): descending, rows of equal key keep their order
SortRanked(rows) ==
    IF rows = <<>> THEN <<>>
    ELSE LET n == Len(rows)
             done == SortRanked(SubSeq(rows, 1, n - 1))
             x == rows[n]
             p == Cardinality({i \in 1..Len(done) : KeyGE(RankKey(done[i]), RankKey(x))})
         IN  SubSeq(done, 1, p) \o <<x>> \o SubSeq(done, p + 1, Len(done))

UpcomingItem(a) ==
    [company |-> Get(a, "name"),
     ticker |-> Get(a, "ticker"),
     index |-> Get(a, "index"),
     next_earnings_iso |-> Get(a, "next_earnings_iso"),
     next_earnings_ts |-> Get(a, "next_earnings_ts"),
     assessment |-> Get(a, "assessment"),
     price |-> Get(a, "price"),
     fair_price |-> Get(a, "fair_price"),
     score_total |-> Get(a, "score_total"),
     grade |-> Get(a, "grade"),
     opportunity_score |-> Get(a, "opportunity_score"),
     valuation_model |-> Get(a, "valuation_model"),
     multiple_ratio |-> Get(a, "multiple_ratio"),
     components |-> Get(a, "components"),
     metrics |-> Get(a, "metrics")]

RECURSIVE UpcomingItems(_)
\* the items of the non-benchmark rows with a next_earnings_ts, in the order of assets
UpcomingItems(rows) ==
    IF rows = <<>> THEN <<>>
    ELSE IF ~("benchmark" \in DOMAIN Head(rows) /\ Head(rows).benchmark)
            /\ ~IsNone(Get(Head(rows), "next_earnings_ts"))
         THEN <<UpcomingItem(Head(rows))>> \o UpcomingItems(Tail(rows))
    ELSE UpcomingItems(Tail(rows))

RECURSIVE SortUpcoming_Descending(_)
\* sorted(items, key=next_earnings_ts or 0, reverse=True)
SortUpcoming_Descending(items) ==
    IF items = <<>> THEN <<>>
    ELSE LET n == Len(items)
             done == SortUpcoming_Descending(SubSeq(items, 1, n - 1))
             x == items[n]
             p == Cardinality({i \in 1..Len(done) :
                                  Val(done[i].next_earnings_ts) >= Val(x.next_earnings_ts)})
         IN  SubSeq(done, 1, p) \o <<x>> \o SubSeq(done, p + 1, Len(done))

RECURSIVE SortUpcoming(_)
\* sorted(items, key=next_earnings_ts or 0): ascending, items of equal key keep their order
SortUpcoming(items) ==
    IF items = <<>> THEN <<>>
    ELSE LET n == Len(items)
             done == SortUpcoming(SubSeq(items, 1, n - 1))
             x == items[n]
             p == Cardinality({i \in 1..Len(done) :
                                  Val(done[i].next_earnings_ts) <= Val(x.next_earnings_ts)})
         IN  SubSeq(done, 1, p) \o <<x>> \o SubSeq(done, p + 1, Len(done))

\* a count that leaves the benchmark rows out
CountAssessment_CompaniesOnly(rows, label) ==
    Cardinality({i \in 1..Len(rows) :
                    Get(rows[i], "assessment") = label /\ ~Get(rows[i], "benchmark")})

CountAssessment(rows, label) ==
    Cardinality({i \in 1..Len(rows) : Get(rows[i], "assessment") = label})

\* what build_snapshot returns for the rows (generated_at, a clock reading, is left out)
Assemble(cfg, rows) ==
    [settings |-> cfg,
     assets |-> rows,
     top_opportunities |-> Take(SortRanked(NonBenchmark(rows)), TOP_N),
     upcoming_earnings_next_5 |-> Take(SortUpcoming(UpcomingItems(rows)), NEXT_N),
     summary |-> [undervalued |-> CountAssessment(rows, "Undervalued"),
                  fair |-> CountAssessment(rows, "Fair"),
                  overvalued |-> CountAssessment(rows, "Overvalued"),
                  na |-> CountAssessment(rows, "N/A")]]

(***************************************************************************)
(* The sector valuation assessor: valuation_assessment.py                  *)
(***************************************************************************)
model_for_sector(sector, industry) ==
    IF "credit services" \in industry \/ "payment" \in industry THEN "pe"
    ELSE IF "financial" \in sector \/ "bank" \in sector \/ "insurance" \in sector THEN "pb"
    ELSE IF "energy" \in sector \/ "oil" \in sector \/ "gas" \in sector THEN "ev_ebitda"
    ELSE IF "industrial" \in sector \/ "transport" \in sector \/ "shipping" \in sector
         THEN "ev_ebitda"
    ELSE "pe"

valuation_style(sector, industry) ==
    IF "software" \in industry \/ "semiconductor" \in industry \/ "internet" \in industry
         THEN "tech_hypergrowth"
    ELSE IF "technology" \in sector \/ "electronic" \in industry THEN "tech_quality"
    ELSE IF "financial" \in sector \/ "bank" \in sector \/ "insurance" \in sector
         THEN "financials"
    ELSE IF "energy" \in sector \/ "oil" \in industry \/ "gas" \in industry THEN "energy"
    ELSE IF "industrial" \in sector \/ "transport" \in sector \/ "shipping" \in industry
         THEN "industrials"
    ELSE IF "healthcare" \in sector \/ "pharmaceutical" \in industry \/ "drug" \in industry
         THEN "healthcare"
    ELSE "broad_market"

\* score in tenths; result in ten-thousandths
fair_multiple(score, model, style) ==
    IF model = "pe" /\ style = "tech_hypergrowth" THEN 140000 + score * 420
    ELSE IF model = "pe" /\ style = "tech_quality" THEN 110000 + score * 340
    ELSE IF model = "pe" /\ style = "healthcare" THEN 90000 + score * 300
    ELSE IF model = "pe" THEN 70000 + score * 260
    ELSE IF model = "pb" THEN 6000 + score * 18
    ELSE IF model = "ev_ebitda" THEN 30000 + score * 110
    ELSE 100000

valuation_label(ratio, style) ==
    IF IsNone(ratio) THEN "N/A"
    ELSE LET n == Val(ratio)[1]
             d == Val(ratio)[2]
             wide == style \in {"tech_hypergrowth", "tech_quality"}
             fair_low == IF wide THEN 75 ELSE 85
             fair_high == IF wide THEN 130 ELSE 115
         IN  IF n * 100 <= fair_low * d THEN "Undervalued"
             ELSE IF n * 100 >= fair_high * d THEN "Overvalued"
             ELSE "Fair"

\* the columns compute adds for one company row r of the score sheet; info: what the
\* data source holds for the company's ticker (r.ticker_known: the company has one);
\* a number written with two decimals is in hundredths, the empty text is None
compute(r, info) ==
    LET score == IF IsNone(r.score_total) THEN 500 ELSE Val(r.score_total)
        known == r.ticker_known
        model0 == IF known THEN model_for_sector(info.sector, info.industry) ELSE "pe"
        style == IF known THEN valuation_style(info.sector, info.industry) ELSE "broad_market"
        trailing_pe == IF known THEN Positive(info.trailing_pe) ELSE None
        pb == IF known THEN Positive(info.price_to_book) ELSE None
        ev_ebitda == IF known THEN Positive(info.enterprise_to_ebitda) ELSE None
        actual0 == IF model0 = "pe" THEN trailing_pe
                   ELSE IF model0 = "pb" THEN pb
                   ELSE ev_ebitda
        \* fallback if the chosen multiple is unavailable
        model1 == IF ~IsNone(actual0) THEN model0
                  ELSE IF ~IsNone(trailing_pe) THEN "pe"
                  ELSE IF ~IsNone(pb) THEN "pb"
                  ELSE IF ~IsNone(ev_ebitda) THEN "ev_ebitda"
                  ELSE model0
        actual1 == IF ~IsNone(actual0) THEN actual0
                   ELSE IF ~IsNone(trailing_pe) THEN trailing_pe
                   ELSE IF ~IsNone(pb) THEN pb
                   ELSE IF ~IsNone(ev_ebitda) THEN ev_ebitda
                   ELSE None
        \* a P/B below 0.3 gives way to the P/E
        low_pb == known /\ model1 = "pb" /\ ~IsNone(actual1) /\ Val(actual1) < 300
        model == IF low_pb /\ ~IsNone(trailing_pe) THEN "pe" ELSE model1
        actual_mult == IF low_pb /\ ~IsNone(trailing_pe) THEN trailing_pe ELSE actual1
        price == IF known THEN info.price ELSE None
        fair_mult == fair_multiple(score, model, style)
        ratio == IF ~IsNone(actual_mult) /\ fair_mult > 0
                 THEN Some(Quotient(Val(actual_mult) * 10, fair_mult))
                 ELSE None
        has_fair_price == ~IsNone(ratio) /\ ~IsNone(price) /\ Val(ratio)[1] > 0
    IN  [sector |-> IF known THEN info.sector ELSE {},
         industry |-> IF known THEN info.industry ELSE {},
         valuation_style |-> style,
         valuation_model |-> ModelTag(model),
         current_price |-> price,
         actual_multiple |-> IF ~IsNone(actual_mult)
                             THEN Some(Round(Val(actual_mult), 10)) ELSE None,
         fair_multiple |-> Round(fair_mult, 100),
         multiple_ratio |-> IF ~IsNone(ratio)
                            THEN Some(Round(Val(ratio)[1] * 100, Val(ratio)[2])) ELSE None,
         fair_price |-> IF has_fair_price
                        THEN Some(Round(Val(price) * Val(ratio)[2], Val(ratio)[1]))
                        ELSE None,
         price_assessment |-> valuation_label(ratio, style)]

(***************************************************************************)
(* The options flow: config_flow.py, InvestingScoreCardOptionsFlow         *)
(***************************************************************************)
DEFAULT_NAME ==
    <<"h","o","m","e","a","s","s","i","s","t","a","n","t"," ","I","n",
      "v","e","s","t","i","n","g"," ","S","c","o","r","e"," ","C","a","r","d">>

Digits == {"0", "1", "2", "3", "4", "5", "6", "7", "8", "9"}

\* re.fullmatch(r"[A-Z0-9.^-]+", ticker)
ValidTicker(ticker) ==
    /\ ticker # <<>>
    /\ \A i \in 1..Len(ticker) :
          InSeq(ticker[i], UpperCase) \/ ticker[i] \in Digits \cup {".", "^", "-"}

\* async_show_form(step_id="init", ..., errors); errors: None or the "base" error
ShowForm(errors) == [type |-> "form", step_id |-> "init", errors |-> errors]

\* async_create_entry(title="", data)
CreateEntry(data) == [type |-> "create_entry", data |-> data]

\* async_step_init; user_input: None, or the submitted form
async_step_init(user_input) ==
    IF IsNone(user_input) THEN ShowForm(None)
    ELSE LET input == Val(user_input)
             name == IF Strip(input.name) # <<>> THEN Strip(input.name) ELSE DEFAULT_NAME
             mode == input.list_mode
             tickers_raw == Strip(input.custom_tickers)
             include_benchmarks == input.include_benchmarks
             parts == SplitComma(tickers_raw)
             tickers == [i \in 1..Len(parts) |-> Upper(Strip(parts[i]))]
         IN  IF mode = "custom" /\ tickers_raw = <<>>
             THEN ShowForm(Some("custom_tickers_required"))
             ELSE IF /\ tickers_raw # <<>>
                     /\ \E i \in 1..Len(tickers) :
                            tickers[i] # <<>> /\ ~ValidTicker(tickers[i])
                  THEN ShowForm(Some("invalid_ticker_list"))
             ELSE CreateEntry([name |-> name, list_mode |-> mode,
                               custom_tickers |-> tickers_raw,
                               include_benchmarks |-> include_benchmarks])

(***************************************************************************)
(* Inputs: the settings a run is given and what the market data source     *)
(* returns for an asset                                                    *)
(***************************************************************************)
\* at most this many assets fail in one run
MaxFailures == 2
\* up to this many assets, every assignment of source bags to them is explored;
\* longer lists are fed the bags in rotation
MaxFullFeed == 2

\* the clock reading of the run, in epoch seconds
NOW_TS == 250

\* the next-earnings timestamp the extractor reports for the earnings fields info
NextEarnings(info) == _next_earnings_from_info(info, NOW_TS)[2]

Bag(sector, industry, price, pe, pb, ev, rev, eps, opm, opm_prior, fcf, nde, ts) ==
    [sector |-> sector, industry |-> industry, price |-> price,
     trailing_pe |-> pe, price_to_book |-> pb, enterprise_to_ebitda |-> ev,
     revenue_yoy_pct |-> rev, eps_yoy_pct |-> eps,
     op_margin_latest_pct |-> opm, op_margin_prior_pct |-> opm_prior,
     fcf_yoy_pct |-> fcf, net_debt_to_ebitda |-> nde, next_earnings_ts |-> ts]

SourceBags == <<
    \* software company, every metric in its top band, cheap on P/E
    Bag({"technology"}, {"software"}, Some(10000), Some(20000), None, None,
        Some(30), Some(60), Some(35), Some(30), Some(40), Some(0),
        NextEarnings(<<Some(100), Some(300), Some(500)>>)),
    \* nothing known
    Bag({}, {}, None, None, None, None, None, None, None, None, None, None, NextEarnings(<<>>)),
    \* bank with a negative P/B: falls back to P/E
    Bag({"financial"}, {"bank"}, Some(5000), Some(15000), Some(-1000), None,
        Some(12), Some(15), None, None, None, None, NextEarnings(<<None, Some(100)>>)),
    \* energy company with P/E 0, price 0, expensive on EV/EBITDA
    Bag({"energy"}, {"oil", "gas"}, Some(0), Some(0), None, Some(12000),
        None, None, None, None, Some(-60), Some(6), NextEarnings(<<Some(200), Some(50), Some(0)>>)),
    \* P/E equal to the fair multiple of score 48.0
    Bag({}, {}, Some(8000), Some(19480), None, None,
        None, None, None, None, None, None, NextEarnings(<<None, Some(0)>>)),
    \* score 78.0, no multiple: the same opportunity score as the bag before
    Bag({}, {}, None, None, None, None,
        Some(12), Some(60), None, None, Some(30), Some(0), NextEarnings(<<Some(100)>>)),
    \* score 50.0 and P/E 17.0: ratio exactly 0.85
    Bag({}, {}, Some(2500), Some(17000), None, None,
        None, Some(-45), None, None, Some(15), Some(0), NextEarnings(<<Some(50), Some(-7)>>)),
    \* expensive on P/E, only the prior margin known
    Bag({"healthcare"}, {"drug"}, Some(1234), Some(30000), Some(2500), Some(9000),
        None, None, None, Some(10), None, None, NextEarnings(<<Some(400)>>)) >>

\* custom_tickers inputs: "", "abc,ABC, xyz", "a,b,c,d,e,f,g,h,i,j,k"
CustomTickerInputs == {
    <<>>,
    <<"a","b","c",",","A","B","C",","," ","x","y","z">>,
    <<"a",",","b",",","c",",","d",",","e",",","f",",","g",",","h",",","i",",","j",",","k">> }

\* the eleven-ticker input is given in custom mode only: after the twenty default
\* companies it adds rows and no new case
Settings ==
    [list_mode : {"default", "extend", "custom"},
     custom_tickers : {t \in CustomTickerInputs : Len(t) <= 12},
     include_benchmarks : BOOLEAN]
    \cup [list_mode : {"custom"},
          custom_tickers : CustomTickerInputs,
          include_benchmarks : BOOLEAN]

\* the bags the source holds for a list of n assets
Feeds(n) ==
    IF n <= MaxFullFeed THEN [1..n -> 1..Len(SourceBags)]
    ELSE {[i \in 1..n |-> ((i + k) % Len(SourceBags)) + 1] : k \in {0, 3}}

\* str(err) of the exception an asset's computation raises
Errors == {"timeout"}

(***************************************************************************)
(* build_snapshot as a state machine                                       *)
(***************************************************************************)
NoSnapshot == <<>>
NoCall == <<>>
NoCoordinator == <<>>
NoHass == <<>>

Init ==
    /\ settings \in Settings
    /\ selected_assets = <<>>
    /\ feed \in Feeds(Len(_resolve_assets(settings)))
    /\ assets = <<>>
    /\ failures = 0
    /\ pc = "resolve"
    /\ snapshot = NoSnapshot
    /\ call = NoCall
    /\ ret = None
    /\ coord = NoCoordinator
    /\ hass = NoHass

\* selected_assets = _resolve_assets(settings)
ResolveAssets ==
    /\ pc = "resolve"
    /\ selected_assets' = _resolve_assets(settings)
    /\ pc' = "loop"
    /\ UNCHANGED <<settings, feed, assets, failures, snapshot, call, ret, coord, hass>>

NextAsset == selected_assets[Len(assets) + 1]

\* one iteration of the loop, no exception: row = _compute_company(asset)
ComputeCompanyRow ==
    /\ pc = "loop" /\ Len(assets) < Len(selected_assets)
    /\ ~NextAsset.benchmark
    /\ assets' = Append(assets, _compute_company(NextAsset, SourceBags[feed[Len(assets) + 1]]))
    /\ UNCHANGED <<settings, selected_assets, feed, failures, pc, snapshot, call, ret, coord, hass>>

\* one iteration of the loop, no exception: row = _compute_benchmark(asset)
ComputeBenchmarkRow ==
    /\ pc = "loop" /\ Len(assets) < Len(selected_assets)
    /\ NextAsset.benchmark
    /\ assets' = Append(assets, _compute_benchmark(NextAsset, SourceBags[feed[Len(assets) + 1]]))
    /\ UNCHANGED <<settings, selected_assets, feed, failures, pc, snapshot, call, ret, coord, hass>>

\* one iteration of the loop, the computation raises: the placeholder row
ComputeRaises ==
    /\ pc = "loop" /\ Len(assets) < Len(selected_assets)
    /\ failures < MaxFailures
    /\ \E err \in Errors : assets' = Append(assets, PlaceholderRow(NextAsset, err))
    /\ failures' = failures + 1
    /\ UNCHANGED <<settings, selected_assets, feed, pc, snapshot, call, ret, coord, hass>>

\* after the loop: ranking, earnings list, summary, return
ReturnSnapshot ==
    /\ pc = "loop" /\ Len(assets) = Len(selected_assets)
    /\ snapshot' = Assemble(settings, assets)
    /\ pc' = "done"
    /\ UNCHANGED <<settings, selected_assets, feed, assets, failures, call, ret, coord, hass>>

Next ==
    \/ ResolveAssets
    \/ ComputeCompanyRow
    \/ ComputeBenchmarkRow
    \/ ComputeRaises
    \/ ReturnSnapshot

Spec == Init /\ [][Next]_vars

(***************************************************************************)
(* The pure functions, one call at a time: Init draws the function and its *)
(* arguments, the action applies it                                        *)
(***************************************************************************)
Metrics(rev, eps, opm, opm_prior, fcf, nde) ==
    [revenue_yoy_pct |-> rev, eps_yoy_pct |-> eps,
     op_margin_latest_pct |-> opm, op_margin_prior_pct |-> opm_prior,
     fcf_yoy_pct |-> fcf, net_debt_to_ebitda |-> nde]

Opt(S) == {None} \cup {Some(x) : x \in S}

\* each metric absent, in its lowest band, in its highest band and in between
MetricInputs ==
    {Metrics(rev, eps, opm, opm_prior, fcf, nde) :
        rev \in Opt({-25, 12, 30}), eps \in Opt({-45, 15, 60}),
        opm \in Opt({-1, 18, 35}), opm_prior \in Opt({16, 30}),
        fcf \in Opt({-60, -5, 15, 40}), nde \in Opt({0, 1, 6})}

\* the scores 0.0, 0.1, .. 100.0 as <<n, d>>
ScoreInputs == {<<t, 10>> : t \in 0..1000}

\* the ratios 0.00, 0.01, .. 2.00 as <<n, d>>, and None
RatioInputs == Opt({<<r, 100>> : r \in 0..200})

STYLES == {"tech_hypergrowth", "tech_quality", "financials", "energy", "industrials",
           "healthcare", "broad_market"}

\* band lists of up to MaxBands pairs, thresholds in any order
MaxBands == 3

BandPairs == {<<th, sc>> : th \in {0, 10, 20}, sc \in {0, 100}}

BandInputs == UNION {[1..n -> BandPairs] : n \in 1..MaxBands}

\* values below, on, between and above the thresholds
BandValues == {-5, 0, 5, 15, 20, 25}

PiecewiseCalls ==
    {[fn |-> f, value |-> v, bands |-> b] :
        f \in {"_piecewise", "piecewise_score"}, v \in BandValues, b \in BandInputs}

\* scores (tenths) at both ends of [0, 100] and in between; the models the engine
\* selects and one it does not; no override or the fair P/E of a configured benchmark
FairMultipleCalls ==
    {[fn |-> "_fair_multiple", score |-> sc, model |-> mo, style |-> st, bench_fair_pe |-> b] :
        sc \in {0, 1, 120, 480, 675, 870, 1000},
        mo \in {"pe", "pb", "ev_ebitda", "ps"},
        st \in STYLES,
        b \in {None} \cup {DEFAULT_BENCHMARK_ASSETS[i].benchmark_fair_pe :
                              i \in 1..Len(DEFAULT_BENCHMARK_ASSETS)}}

\* what the data source holds for a company: each multiple absent, negative, 0, a
\* positive value that rounds to 0.00, or ordinary
CompanyBags ==
    {Bag(sector, {}, Some(10000), pe, pb, ev,
         None, None, None, None, None, None, None) :
        sector \in {{}, {"financial"}, {"energy"}},
        pe \in Opt({-1000, 0, 4, 12000}), pb \in Opt({0, 4, 1500}),
        ev \in Opt({-5, 9000})}

CompanyCalls == {[fn |-> "_compute_company", info |-> b] : b \in CompanyBags}

\* sector and industry texts as the data source writes them (None reads as "")
SectorTexts ==
    {<<>>,
     <<"F","i","n","a","n","c","i","a","l"," ","S","e","r","v","i","c","e","s">>,
     <<"B","A","N","K","I","N","G">>,
     <<"I","n","s","u","r","a","n","c","e">>,
     <<"E","n","e","r","g","y">>,
     <<"O","i","l"," ","&"," ","G","a","s">>,
     <<"I","n","d","u","s","t","r","i","a","l","s">>,
     <<"T","r","a","n","s","p","o","r","t","a","t","i","o","n">>,
     <<"s","h","i","p","p","i","n","g">>,
     <<"T","e","c","h","n","o","l","o","g","y">>}

IndustryTexts ==
    {<<>>,
     <<"C","r","e","d","i","t"," ","S","e","r","v","i","c","e","s">>,
     <<"P","A","Y","M","E","N","T"," ","P","r","o","c","e","s","s","i","n","g">>,
     <<"S","o","f","t","w","a","r","e">>,
     <<"B","a","n","k","s">>}

ModelCalls ==
    {[fn |-> "_model_for_sector", sector |-> st, industry |-> it] :
        st \in SectorTexts, it \in IndustryTexts}

\* up to MaxInfo timestamp fields, each unparseable, not positive, past, now or future
MaxInfo == 4

InfoValues == Opt({-7, 0, 100, NOW_TS, 300})

InfoInputs == UNION {[1..n -> InfoValues] : n \in 0..MaxInfo}

EarningsCalls == {[fn |-> "_next_earnings_from_info", fields |-> i] : i \in InfoInputs}

\* custom_tickers strings of up to MaxRaw characters
MaxRaw == 4

RawAlphabet == {"v", "V", "b", ",", " "}

RawInputs ==
    UNION {[1..n -> RawAlphabet] : n \in 0..MaxRaw} \cup CustomTickerInputs

ResolveInputs ==
    [list_mode : {"default", "extend", "custom"},
     custom_tickers : RawInputs,
     include_benchmarks : BOOLEAN]

\* the rows given to the CSV scorer: every numeric cell blank or filled, the guidance
\* cell blank or one of the texts, the two report cells blank or filled
RowInputs ==
    [revenue_yoy_pct : Opt({-25, 12}), eps_yoy_pct : Opt({15, 60}),
     op_margin_latest_pct : Opt({12, 35}), op_margin_prior_pct : Opt({16}),
     fcf_yoy_pct : Opt({-5, 40}), net_debt_to_ebitda : Opt({1}),
     guidance_change : Opt({"unchanged", "raised", "cut"}),
     prior_report_date : Opt({"2025-02-05"}),
     prior_report_url : Opt({"https://example.com/report"})]

\* the numeric cells of a row as the metrics of the live engine
RowMetrics(row) ==
    Metrics(row.revenue_yoy_pct, row.eps_yoy_pct, row.op_margin_latest_pct,
            row.op_margin_prior_pct, row.fcf_yoy_pct, row.net_debt_to_ebitda)

\* the points of the cell are a product the floats hold exactly: a unit score of
\* 0, 0.25, 0.5, 0.75 or 1 times the weight
ExactPoints(points, weight) == points % (25 * weight) = 0

\* every addend of the row's total is held exactly (the guidance points are literals),
\* so the sum is the same in whatever order it is added
SumIsExact(row) ==
    /\ has_value(row, "revenue_yoy_pct")
          => ExactPoints(score_growth_revenue_yoy(Val(row.revenue_yoy_pct)), WEIGHTS.revenue_yoy)
    /\ has_value(row, "eps_yoy_pct")
          => ExactPoints(score_growth_eps_yoy(Val(row.eps_yoy_pct)), WEIGHTS.eps_yoy)
    /\ (has_value(row, "op_margin_latest_pct") /\ has_value(row, "op_margin_prior_pct"))
          => /\ ExactPoints(score_profitability_margin_level(Val(row.op_margin_latest_pct)),
                            WEIGHTS.op_margin_level)
             /\ ExactPoints(score_profitability_margin_yoy(Val(row.op_margin_latest_pct)
                                                              - Val(row.op_margin_prior_pct)),
                            WEIGHTS.op_margin_yoy)
    /\ has_value(row, "fcf_yoy_pct")
          => ExactPoints(score_fcf_yoy(Val(row.fcf_yoy_pct)), WEIGHTS.fcf_yoy)
    /\ has_value(row, "net_debt_to_ebitda")
          => ExactPoints(score_net_debt_to_ebitda(Val(row.net_debt_to_ebitda)),
                         WEIGHTS.net_debt_to_ebitda)

\* the two programs add the same points in the same order, except that the live engine
\* adds the two margin terms to each other first (engine.py raw_points += s_lvl + s_yoy)
SameSum(row) ==
    \/ ~(has_value(row, "op_margin_latest_pct") /\ has_value(row, "op_margin_prior_pct"))
    \/ SumIsExact(row)

\* the error signs of the total of a row: err as scorecard.py adds it, live_err as
\* engine.py adds it
RowCalls ==
    {[fn |-> "compute_row", row |-> r, err |-> e, live_err |-> l] :
        r \in RowInputs, e \in FloatErrs, l \in FloatErrs}

\* what the data source holds for the ticker of a row of the score sheet: no metric but
\* the revenue growth, the multiples absent, not positive, low or ordinary
AssessBags ==
    {Bag(sector, industry, Some(10000), pe, pb, ev,
         rev, None, None, None, None, None, None) :
        sector \in {{}, {"financial"}, {"energy"}, {"technology"}},
        industry \in {{}, {"software"}, {"payment"}},
        pe \in Opt({-1000, 12000}), pb \in Opt({200, 1500}), ev \in Opt({9000}),
        rev \in Opt({30})}

\* the score sheet holds a score, 48.0 or 67.5 (the scores the live engine gives the
\* bags), or no score
AssessCalls ==
    {[fn |-> "compute", r |-> [ticker_known |-> k, score_total |-> sc], info |-> b] :
        k \in BOOLEAN,
        b \in AssessBags,
        sc \in {None, Some(480), Some(675)}}

\* the options form not submitted, or submitted with a blank or a given name, any
\* list mode and any custom_tickers string
FlowCalls ==
    {[fn |-> "async_step_init", user_input |-> None]}
    \cup {[fn |-> "async_step_init",
           user_input |-> Some([name |-> n, list_mode |-> mo, custom_tickers |-> raw,
                                include_benchmarks |-> TRUE])] :
             n \in {<<" ">>, <<"M", "y">>},
             mo \in {"default", "extend", "custom"},
             raw \in RawInputs}

UnitCalls ==
    {[fn |-> "_compute_score", metrics |-> m, err |-> e] : m \in MetricInputs, e \in FloatErrs}
    \cup {[fn |-> f, score |-> sc] : f \in {"_grade", "to_grade"}, sc \in ScoreInputs}
    \cup {[fn |-> "_valuation_label", ratio |-> r, style |-> st] :
             r \in RatioInputs, st \in STYLES}
    \cup {[fn |-> "_resolve_assets", cfg |-> cfg] : cfg \in ResolveInputs}
    \cup {c \in RowCalls : SameSum(c.row) => c.err = c.live_err}
    \cup AssessCalls
    \cup PiecewiseCalls
    \cup FairMultipleCalls
    \cup CompanyCalls
    \cup ModelCalls
    \cup EarningsCalls
    \cup FlowCalls

UnitInit ==
    /\ call \in UnitCalls
    /\ ret = None
    /\ pc = "call"
    /\ settings = [list_mode |-> "default", custom_tickers |-> <<>>, include_benchmarks |-> TRUE]
    /\ selected_assets = <<>>
    /\ feed = <<>>
    /\ assets = <<>>
    /\ failures = 0
    /\ snapshot = NoSnapshot
    /\ coord = NoCoordinator
    /\ hass = NoHass

Returns(fn, value) ==
    /\ pc = "call" /\ call.fn = fn
    /\ ret' = value
    /\ pc' = "return"
    /\ UNCHANGED <<settings, selected_assets, feed, assets, failures, snapshot, call, coord, hass>>

CallComputeScore == Returns("_compute_score", _compute_score(call.metrics, call.err))
CallGrade == Returns("_grade", _grade(call.score))
CallToGrade == Returns("to_grade", to_grade(call.score))
CallValuationLabel == Returns("_valuation_label", _valuation_label(call.ratio, call.style))
CallResolveAssets == Returns("_resolve_assets", _resolve_assets(call.cfg))
CallComputeRow == Returns("compute_row", compute_row(call.row, call.err))
CallCompute == Returns("compute", compute(call.r, call.info))
CallComputeCompany ==
    Returns("_compute_company", _compute_company(DEFAULT_COMPANY_ASSETS[1], call.info))
CallModelForSector ==
    Returns("_model_for_sector",
            _model_for_sector(KeywordsIn(call.sector), KeywordsIn(call.industry)))
CallNextEarnings ==
    Returns("_next_earnings_from_info", _next_earnings_from_info(call.fields, NOW_TS))
CallStepInit == Returns("async_step_init", async_step_init(call.user_input))
CallFairMultiple ==
    Returns("_fair_multiple",
            _fair_multiple(call.score, call.model, call.style, call.bench_fair_pe))
CallPiecewise == Returns("_piecewise", _piecewise(call.value, call.bands))
CallPiecewiseScore == Returns("piecewise_score", piecewise_score(call.value, call.bands))

UnitNext ==
    \/ CallComputeScore
    \/ CallGrade
    \/ CallToGrade
    \/ CallValuationLabel
    \/ CallResolveAssets
    \/ CallComputeRow
    \/ CallCompute
    \/ CallPiecewise
    \/ CallPiecewiseScore
    \/ CallFairMultiple
    \/ CallComputeCompany
    \/ CallModelForSector
    \/ CallNextEarnings
    \/ CallStepInit

SpecUnit == UnitInit /\ [][UnitNext]_vars

(***************************************************************************)
(* The coordinator and its store (coordinator.py, storage.py, api.py)      *)
(*                                                                         *)
(* A snapshot is the dict build_snapshot returns; here only its identity   *)
(* matters, so the snapshot of the n-th refresh is [generated_at |-> n].   *)
(* The empty dict {} is <<>> (and so is a missing key's None: the store    *)
(* reads both through "or {}").  The store file holds nothing, a JSON      *)
(* value that is not a dict, or a dict.                                    *)
(***************************************************************************)
MaxRefreshes == 5

\* build_snapshot's return value at the n-th refresh (never an empty dict)
FreshSnapshot(n) == [generated_at |-> n]

MissingFile == [kind |-> "missing", value |-> <<>>]
DictFile(payload) == [kind |-> "dict", value |-> payload]

\* what an earlier run may have left in the store file
FileInputs ==
    {MissingFile,
     [kind |-> "list", value |-> <<>>],
     DictFile(<<>>),
     DictFile([updated_at |-> 0, snapshot |-> <<>>]),
     DictFile([updated_at |-> 0, snapshot |-> FreshSnapshot(0)])}

\* InvestingScoreCardStore.__init__: nothing loaded yet
NewStore(file) == [file |-> file, data |-> None]

\* a store whose load reads the file every time
async_load_FileOnly(store) ==
    LET data1 == IF store.file.kind = "dict" THEN store.file.value ELSE <<>>
    IN  [store |-> store,
         state |-> [updated_at |-> Get(data1, "updated_at"),
                    snapshot |-> Get(data1, "snapshot")]]

\* InvestingScoreCardStore.async_load: the file is read once, then _data answers
async_load(store) ==
    LET data1 == IF IsNone(store.data)
                 THEN IF store.file.kind = "dict" THEN store.file.value ELSE <<>>
                 ELSE Val(store.data)
    IN  [store |-> [store EXCEPT !.data = Some(data1)],
         state |-> [updated_at |-> Get(data1, "updated_at"),
                    snapshot |-> Get(data1, "snapshot")]]

\* InvestingScoreCardStore.async_save_snapshot: _data is assigned before the
\* awaited write, so a write that raises leaves the new snapshot in _data
async_save_snapshot(store, snap, now, write_ok) ==
    LET data1 == [updated_at |-> now, snapshot |-> snap]
    IN  [store |-> [file |-> IF write_ok THEN DictFile(data1) ELSE store.file,
                    data |-> Some(data1)],
         raised |-> ~write_ok]

ReturnsData(snap) == [kind |-> "data", data |-> snap]
UpdateFailed == [kind |-> "UpdateFailed", data |-> <<>>]

\* InvestingScoreCardCoordinator._async_update_data; computed: async_get_snapshot
\* returned (it raises InvestingScoreCardApiError for any error of build_snapshot)
_async_update_data(store, computed, now, write_ok) ==
    LET saved == async_save_snapshot(store, FreshSnapshot(now), now, write_ok)
        raised == ~computed \/ saved.raised
        stored == async_load(IF computed THEN saved.store ELSE store)
    IN  IF ~raised THEN [store |-> saved.store, result |-> ReturnsData(FreshSnapshot(now))]
        ELSE IF stored.state.snapshot # <<>>
             THEN [store |-> stored.store, result |-> ReturnsData(stored.state.snapshot)]
             ELSE [store |-> stored.store, result |-> UpdateFailed]

\* the snapshot a store file holds for a coordinator that starts on it
FileSnapshot(file) == IF file.kind = "dict" THEN Get(file.value, "snapshot") ELSE <<>>

\* InvestingScoreCardCoordinator.__init__ over a store file; last_ok records
\* the snapshot of the most recent refresh whose computation succeeded
\* (before the first one: the snapshot the file holds)
NewCoordinator(file) ==
    [store |-> NewStore(file), refreshes |-> 0, computed |-> FALSE,
     result |-> [kind |-> "none", data |-> <<>>], last_ok |-> FileSnapshot(file)]

CoordInit ==
    /\ coord \in {NewCoordinator(f) : f \in FileInputs}
    /\ pc = "idle"
    /\ call = NoCall
    /\ ret = None
    /\ settings = [list_mode |-> "default", custom_tickers |-> <<>>, include_benchmarks |-> TRUE]
    /\ selected_assets = <<>>
    /\ feed = <<>>
    /\ assets = <<>>
    /\ failures = 0
    /\ snapshot = NoSnapshot
    /\ hass = NoHass

\* one refresh, from the call of _async_update_data to its return or raise
Refresh(computed, write_ok) ==
    /\ coord.refreshes < MaxRefreshes
    /\ LET now == coord.refreshes + 1
           r == _async_update_data(coord.store, computed, now, write_ok)
       IN  coord' = [store |-> r.store, refreshes |-> now, computed |-> computed,
                     result |-> r.result,
                     last_ok |-> IF computed THEN FreshSnapshot(now) ELSE coord.last_ok]
    /\ UNCHANGED <<settings, selected_assets, feed, assets, failures, pc, snapshot, call, ret, hass>>

\* the snapshot is computed and saved
RefreshSucceeds == Refresh(TRUE, TRUE)
\* the snapshot is computed, the store's write raises
RefreshSaveFails == Refresh(TRUE, FALSE)
\* async_get_snapshot raises InvestingScoreCardApiError
RefreshComputeFails == Refresh(FALSE, TRUE)

CoordNext ==
    \/ RefreshSucceeds
    \/ RefreshSaveFails
    \/ RefreshComputeFails

SpecCoord == CoordInit /\ [][CoordNext]_vars

(***************************************************************************)
(* Set-up, unload and the refresh_data service (__init__.py, services.py)  *)
(*                                                                         *)
(* hass.data[DOMAIN] maps the key "services_registered" to True and the id *)
(* of every loaded entry to its coordinator.  The model keeps whether the  *)
(* dict exists, whether the flag key is in it, and the set of entry ids in *)
(* it; a coordinator is known by its entry id, and requests counts the     *)
(* async_request_refresh calls it has received.                            *)
(***************************************************************************)
MaxRequests == 2

EntryIds == {<<"e", "1">>, <<"e", "2">>, <<"e", "3">>}

SERVICES_KEY ==
    <<"s","e","r","v","i","c","e","s","_","r","e","g","i","s","t","e","r","e",
      "d">>

\* the entry_id a service call may carry: absent, blank, a known id (also padded), an
\* id no entry has, the flag key
CallEntryIds ==
    {<<>>, <<" ">>, <<" ", "e", "1">>, <<"e", "9">>, SERVICES_KEY} \cup EntryIds

HassInit ==
    /\ hass = [data_set |-> FALSE, services_registered |-> FALSE, has_service |-> FALSE,
               coordinators |-> {}, requests |-> [e \in EntryIds |-> 0], last |-> <<>>]
    /\ coord = NoCoordinator
    /\ pc = "idle"
    /\ call = NoCall
    /\ ret = None
    /\ settings = [list_mode |-> "default", custom_tickers |-> <<>>, include_benchmarks |-> TRUE]
    /\ selected_assets = <<>>
    /\ feed = <<>>
    /\ assets = <<>>
    /\ failures = 0
    /\ snapshot = NoSnapshot

HassUnchanged ==
    UNCHANGED <<settings, selected_assets, feed, assets, failures, pc, snapshot, call, ret,
                coord>>

\* async_setup: the dict, the service (async_register), the flag
async_setup ==
    /\ hass' = [hass EXCEPT !.data_set = TRUE,
                            !.has_service = TRUE,
                            !.services_registered = TRUE]
    /\ HassUnchanged

\* async_setup_entry of an entry that is not loaded; its first refresh succeeded
async_setup_entry(entry_id) ==
    /\ entry_id \notin hass.coordinators
    /\ hass' = [hass EXCEPT !.data_set = TRUE,
                            !.coordinators = @ \cup {entry_id},
                            !.requests[entry_id] = 0]
    /\ HassUnchanged

\* async_unload_entry of a loaded entry; unload_ok: async_unload_platforms' answer
async_unload_entry(entry_id, unload_ok) ==
    /\ entry_id \in hass.coordinators
    /\ hass' = [hass EXCEPT !.coordinators = IF unload_ok THEN @ \ {entry_id} ELSE @]
    /\ HassUnchanged

\* coordinators.get(entry_id): "none", "flag" (the value True) or "coordinator"
CoordinatorsGet(h, entry_id) ==
    IF entry_id = SERVICES_KEY /\ h.services_registered THEN "flag"
    ELSE IF entry_id \in h.coordinators THEN "coordinator"
    ELSE "none"

\* the keys whose values the handler asks to refresh
Targets(h, entry_id) ==
    IF entry_id # <<>> THEN {entry_id} ELSE h.coordinators

\* _async_refresh: the response, or the AttributeError that True.async_request_refresh
\* raises; requested: the coordinators asked to refresh
_async_refresh(h, raw) ==
    LET entry_id == Strip(raw)
        found == CoordinatorsGet(h, entry_id)
    IN  IF entry_id # <<>> /\ found = "none"
        THEN [raised |-> FALSE, ok |-> FALSE, error |-> "entry_not_found",
              refreshed_entries |-> 0, requested |-> {}]
        ELSE IF entry_id # <<>> /\ found = "flag"
        THEN [raised |-> TRUE, ok |-> FALSE, error |-> "AttributeError",
              refreshed_entries |-> 0, requested |-> {}]
        ELSE [raised |-> FALSE, ok |-> TRUE, error |-> "",
              refreshed_entries |-> Cardinality(Targets(h, entry_id)),
              requested |-> Targets(h, entry_id)]

\* a refresh_data call; the service exists once async_register has run
ServiceCall(raw) ==
    /\ hass.has_service
    /\ LET r == _async_refresh(hass, raw)
       IN  /\ \A e \in r.requested : hass.requests[e] < MaxRequests
           /\ hass' = [hass EXCEPT
                         !.requests = [e \in EntryIds |->
                                          IF e \in r.requested THEN @[e] + 1 ELSE @[e]],
                         !.last = [entry_id |-> Strip(raw),
                                   loaded |-> hass.coordinators,
                                   result |-> r]]
    /\ HassUnchanged

SetupEntry == \E e \in EntryIds : async_setup_entry(e)
UnloadEntry == \E e \in EntryIds, unload_ok \in BOOLEAN : async_unload_entry(e, unload_ok)
RefreshData == \E raw \in CallEntryIds : ServiceCall(raw)

HassNext ==
    \/ async_setup
    \/ SetupEntry
    \/ UnloadEntry
    \/ RefreshData

SpecHass == HassInit /\ [][HassNext]_vars

(***************************************************************************)
(* Properties of build_snapshot (specification Spec)                       *)
(***************************************************************************)
Done == pc = "done"

IsPlaceholder(row) == "error" \in DOMAIN row
IsBenchmarkRow(row) == "benchmark" \in DOMAIN row /\ row.benchmark
IsRealCompany(row) == ~IsBenchmarkRow(row) /\ ~IsPlaceholder(row)

\* how many times the row occurs in the sequence
CountRow(rows, row) == Cardinality({i \in 1..Len(rows) : rows[i] = row})

\* the row the asset's computation gives when nothing raises
ComputedRow(i) ==
    IF selected_assets[i].benchmark
    THEN _compute_benchmark(selected_assets[i], SourceBags[feed[i]])
    ELSE _compute_company(selected_assets[i], SourceBags[feed[i]])

\* the guards of the steps that do not raise: resolve, compute a row, return
CanProceed ==
    \/ pc = "resolve"
    \/ pc = "loop" /\ Len(assets) < Len(selected_assets)
    \/ pc = "loop" /\ Len(assets) = Len(selected_assets)

\* C1: build_snapshot never aborts because of a failing asset. Whatever assets have
\* failed, the run is never stuck before it returns, and the returned Snapshot holds
\* exactly one row per resolved asset, in resolution order: the row of a failed asset
\* is the placeholder (error text, score_total null, grade and assessment "N/A",
\* opportunity_score -999.0) and the row of every other asset is the one its
\* computation gives, the same as in a run where nothing fails.
C1_OneRowPerAsset ==
    /\ ~Done => CanProceed
    /\ Done =>
        /\ selected_assets = _resolve_assets(settings)
        /\ Len(snapshot.assets) = Len(selected_assets)
        /\ \A i \in 1..Len(selected_assets) :
              LET row == snapshot.assets[i]
                  asset == selected_assets[i]
              IN  /\ row.name = asset.name
                  /\ row.ticker = asset.ticker
                  /\ row.index = asset.index_name
                  /\ row.benchmark = asset.benchmark
                  /\ IF IsPlaceholder(row)
                     THEN /\ row.error \in Errors
                          /\ row.score_total = None
                          /\ row.grade = "N/A"
                          /\ row.assessment = "N/A"
                          /\ row.opportunity_score = -9990
                     ELSE row = ComputedRow(i)
        /\ failures = Cardinality({i \in 1..Len(selected_assets) :
                                      IsPlaceholder(snapshot.assets[i])})

\* C1 witness: a returned Snapshot in which a company and a benchmark failed and a
\* computed row follows a placeholder
C1_Witness ==
    /\ Done
    /\ \E i, j, k \in 1..Len(snapshot.assets) :
          /\ i < k
          /\ IsPlaceholder(snapshot.assets[i]) /\ ~snapshot.assets[i].benchmark
          /\ IsPlaceholder(snapshot.assets[j]) /\ snapshot.assets[j].benchmark
          /\ ~IsPlaceholder(snapshot.assets[k])

\* C2: in top_opportunities no placeholder row stands ahead of a successfully computed
\* company row, and a placeholder row is in top_opportunities only if every
\* successfully computed company row of assets is in it too.
C2_PlaceholdersRankLast ==
    Done =>
        LET top == snapshot.top_opportunities
            realIn(rows) == Cardinality({i \in 1..Len(rows) : IsRealCompany(rows[i])})
        IN  /\ \A i, j \in 1..Len(top) :
                  (IsPlaceholder(top[i]) /\ IsRealCompany(top[j])) => j < i
            /\ (\E i \in 1..Len(top) : IsPlaceholder(top[i]))
                  => realIn(top) = realIn(snapshot.assets)

\* C2 witness: more company rows than the list takes, computed rows and a placeholder
\* in the list, and another placeholder left out
C2_Witness ==
    /\ Done
    /\ Len(NonBenchmark(snapshot.assets)) > TOP_N
    /\ \E i, j \in 1..Len(snapshot.top_opportunities) :
          /\ IsPlaceholder(snapshot.top_opportunities[i])
          /\ IsRealCompany(snapshot.top_opportunities[j])
    /\ \E i \in 1..Len(snapshot.assets) :
          /\ IsPlaceholder(snapshot.assets[i]) /\ ~IsBenchmarkRow(snapshot.assets[i])
          /\ CountRow(snapshot.top_opportunities, snapshot.assets[i]) = 0

\* the ranking key as the specification states it: (opportunity_score, score_total or 0)
SpecKey(row) ==
    <<row.opportunity_score, IF row.score_total = None THEN 0 ELSE Val(row.score_total)>>

SpecKeyGE(k1, k2) == k1[1] > k2[1] \/ (k1[1] = k2[1] /\ k1[2] >= k2[2])

\* C3: top_opportunities is the first min(10, n) of the n non-benchmark rows in
\* descending order of (opportunity_score, score_total or 0): it holds no benchmark
\* row, min(10, n) rows, each a row of assets (as often at most as assets holds it), in
\* non-increasing order of the key, and every non-benchmark row left out has a key no
\* greater than the key of any row included.
C3_TopOpportunities ==
    Done =>
        LET top == snapshot.top_opportunities
            nb == SelectSeq(snapshot.assets, LAMBDA r : ~r.benchmark)
        IN  /\ Len(top) = Min(10, Len(nb))
            /\ \A i \in 1..Len(top) : ~top[i].benchmark
            /\ \A i \in 1..Len(top) : CountRow(top, top[i]) <= CountRow(nb, top[i])
            /\ \A i, j \in 1..Len(top) :
                  i < j => SpecKeyGE(SpecKey(top[i]), SpecKey(top[j]))
            /\ \A i \in 1..Len(nb) :
                  CountRow(top, nb[i]) < CountRow(nb, nb[i])
                     => \A j \in 1..Len(top) : SpecKeyGE(SpecKey(top[j]), SpecKey(nb[i]))

\* C3 witness: more than ten company rows, benchmarks present, a row left out, and two
\* rows in the list that tie on opportunity_score and differ in score_total
C3_Witness ==
    /\ Done
    /\ Len(NonBenchmark(snapshot.assets)) > TOP_N
    /\ \E i \in 1..Len(snapshot.assets) : IsBenchmarkRow(snapshot.assets[i])
    /\ \E i, j \in 1..Len(snapshot.top_opportunities) :
          /\ i < j
          /\ snapshot.top_opportunities[i].opportunity_score
                = snapshot.top_opportunities[j].opportunity_score
          /\ SpecKey(snapshot.top_opportunities[i])[2]
                > SpecKey(snapshot.top_opportunities[j])[2]

\* the fair multiple a row shows is positive (a row without the field has none)
FairPositive(row) == "fair_multiple" \in DOMAIN row /\ row.fair_multiple > 0

\* C8: in every row of every Snapshot, multiple_ratio is non-null exactly when the
\* actual multiple is non-null and the fair multiple is positive, and assessment is
\* "N/A" exactly when multiple_ratio is null (a field the row lacks is null).
C8_RatioAndAssessment ==
    Done =>
        \A i \in 1..Len(snapshot.assets) :
            LET row == snapshot.assets[i]
            IN  /\ (Get(row, "multiple_ratio") # None)
                      <=> (Get(row, "actual_multiple") # None /\ FairPositive(row))
                /\ (row.assessment = "N/A") <=> (Get(row, "multiple_ratio") = None)
                /\ row.assessment \in {"N/A", "Undervalued", "Fair", "Overvalued"}

\* C8 witness: a Snapshot with a computed company row without an actual multiple, a
\* computed company row with a ratio, a benchmark row with a ratio and a placeholder
C8_Witness ==
    /\ Done
    /\ \E i, j, k, l \in 1..Len(snapshot.assets) :
          /\ IsRealCompany(snapshot.assets[i])
          /\ snapshot.assets[i].actual_multiple = None
          /\ snapshot.assets[i].fair_multiple > 0
          /\ snapshot.assets[i].assessment = "N/A"
          /\ IsRealCompany(snapshot.assets[j])
          /\ snapshot.assets[j].multiple_ratio # None
          /\ snapshot.assets[j].assessment # "N/A"
          /\ IsBenchmarkRow(snapshot.assets[k]) /\ ~IsPlaceholder(snapshot.assets[k])
          /\ snapshot.assets[k].multiple_ratio # None
          /\ IsPlaceholder(snapshot.assets[l])

\* C10 as stated: every benchmark row carries score_total null, grade "N/A" and
\* opportunity_score 0.0 whatever the outcome of its data retrieval, and
\* opportunity_score -999.0 is carried only by rows of companies that failed.
C10_BenchmarkZeroAlways ==
    Done =>
        \A i \in 1..Len(snapshot.assets) :
            LET row == snapshot.assets[i]
            IN  /\ row.benchmark =>
                      /\ row.score_total = None
                      /\ row.grade = "N/A"
                      /\ row.opportunity_score = 0
                /\ row.opportunity_score = -9990 => (~row.benchmark /\ IsPlaceholder(row))

\* C10 amended: every benchmark row carries score_total null and grade "N/A"; its
\* opportunity_score is 0.0 when its computation succeeded and -999.0 when its
\* computation failed; opportunity_score -999.0 is carried exactly by the rows of the
\* assets, companies or benchmarks, whose computation failed.
C10_BenchmarkSentinels ==
    Done =>
        \A i \in 1..Len(snapshot.assets) :
            LET row == snapshot.assets[i]
            IN  /\ row.benchmark =>
                      /\ row.score_total = None
                      /\ row.grade = "N/A"
                      /\ row.opportunity_score = IF IsPlaceholder(row) THEN -9990 ELSE 0
                /\ (row.opportunity_score = -9990) <=> IsPlaceholder(row)

\* C10 witness: a Snapshot with a computed benchmark row, a failed benchmark row, a
\* failed company row and a computed company row
C10_Witness ==
    /\ Done
    /\ \E i, j, k, l \in 1..Len(snapshot.assets) :
          /\ snapshot.assets[i].benchmark /\ ~IsPlaceholder(snapshot.assets[i])
          /\ snapshot.assets[i].opportunity_score = 0
          /\ snapshot.assets[j].benchmark /\ IsPlaceholder(snapshot.assets[j])
          /\ snapshot.assets[j].opportunity_score = -9990
          /\ ~snapshot.assets[k].benchmark /\ IsPlaceholder(snapshot.assets[k])
          /\ IsRealCompany(snapshot.assets[l])

\* the row is eligible for the earnings list: not a benchmark, next_earnings_ts not null
Eligible(row) == ~row.benchmark /\ Get(row, "next_earnings_ts") # None

\* the entry of the earnings list shows the row
EntryOf(entry, row) ==
    /\ entry.company = row.name
    /\ entry.ticker = row.ticker
    /\ entry.index = row.index
    /\ entry.next_earnings_ts = Get(row, "next_earnings_ts")
    /\ entry.score_total = Get(row, "score_total")
    /\ entry.opportunity_score = Get(row, "opportunity_score")

\* C11: every entry of upcoming_earnings_next_5 is a future earnings event, its
\* next_earnings_ts greater than or equal to the time the snapshot was computed, and
\* the list holds the 5 soonest such events among the non-benchmark rows.
C11_UpcomingAreFuture ==
    Done =>
        LET up == snapshot.upcoming_earnings_next_5
            future == {i \in 1..Len(snapshot.assets) :
                          /\ Eligible(snapshot.assets[i])
                          /\ Val(snapshot.assets[i].next_earnings_ts) >= NOW_TS}
        IN  /\ \A i \in 1..Len(up) : Val(up[i].next_earnings_ts) >= NOW_TS
            /\ Len(up) = Min(5, Cardinality(future))

\* C12: upcoming_earnings_next_5 contains only non-benchmark rows whose next_earnings_ts
\* is non-null, has at most 5 entries, is sorted in ascending order of next_earnings_ts,
\* and every eligible row left out has a timestamp greater than or equal to that of
\* every entry included.
C12_UpcomingEarnings ==
    Done =>
        LET up == snapshot.upcoming_earnings_next_5
            rows == snapshot.assets
            eligible == {i \in 1..Len(rows) : Eligible(rows[i])}
            shown(row) == Cardinality({i \in 1..Len(up) : EntryOf(up[i], row)})
            held(row) == Cardinality({i \in eligible : rows[i] = row})
        IN  /\ Len(up) <= 5
            /\ Len(up) = Min(5, Cardinality(eligible))
            /\ \A i \in 1..Len(up) :
                  /\ up[i].next_earnings_ts # None
                  /\ \E j \in eligible : EntryOf(up[i], rows[j])
                  /\ ~\E j \in 1..Len(rows) : rows[j].benchmark /\ EntryOf(up[i], rows[j])
            /\ \A i, j \in 1..Len(up) :
                  i < j => Val(up[i].next_earnings_ts) <= Val(up[j].next_earnings_ts)
            /\ \A j \in eligible :
                  shown(rows[j]) < held(rows[j])
                     => \A i \in 1..Len(up) :
                           Val(rows[j].next_earnings_ts) >= Val(up[i].next_earnings_ts)

\* C12 witness: more eligible rows than the list takes, a benchmark row and a row
\* without a timestamp in assets, five entries with different timestamps
C12_Witness ==
    /\ Done
    /\ Cardinality({i \in 1..Len(snapshot.assets) : Eligible(snapshot.assets[i])}) > NEXT_N
    /\ Len(snapshot.upcoming_earnings_next_5) = NEXT_N
    /\ \E i \in 1..Len(snapshot.assets) : snapshot.assets[i].benchmark
    /\ \E i \in 1..Len(snapshot.assets) :
          IsRealCompany(snapshot.assets[i]) /\ snapshot.assets[i].next_earnings_ts = None
    /\ Val(snapshot.upcoming_earnings_next_5[1].next_earnings_ts)
          < Val(snapshot.upcoming_earnings_next_5[5].next_earnings_ts)

\* C13: for each of the four labels Undervalued, Fair, Overvalued and N/A the summary
\* count equals the number of rows of assets, benchmark rows and placeholder rows
\* included, whose assessment is that label.
C13_SummaryCounts ==
    Done =>
        LET rows == snapshot.assets
            n(label) == Cardinality({i \in 1..Len(rows) : rows[i].assessment = label})
        IN  /\ snapshot.summary.undervalued = n("Undervalued")
            /\ snapshot.summary.fair = n("Fair")
            /\ snapshot.summary.overvalued = n("Overvalued")
            /\ snapshot.summary.na = n("N/A")
            /\ snapshot.summary.undervalued + snapshot.summary.fair
                  + snapshot.summary.overvalued + snapshot.summary.na = Len(rows)

\* C13 witness: every label is counted, a benchmark row and a placeholder row among
\* the rows counted
C13_Witness ==
    /\ Done
    /\ snapshot.summary.undervalued > 0 /\ snapshot.summary.fair > 0
    /\ snapshot.summary.overvalued > 0 /\ snapshot.summary.na > 0
    /\ \E i, j \in 1..Len(snapshot.assets) :
          /\ IsPlaceholder(snapshot.assets[i])
          /\ IsBenchmarkRow(snapshot.assets[j]) /\ snapshot.assets[j].assessment # "N/A"

\* C16: for every list_mode the Snapshot's assets contains a row with benchmark = true
\* if and only if include_benchmarks is true: with include_benchmarks true the rows of
\* the fixed benchmark descriptors come after the rows of all company descriptors,
\* and with include_benchmarks false no row, real or placeholder, has benchmark = true.
C16_BenchmarksIffIncluded ==
    Done =>
        LET rows == snapshot.assets
            n == Len(rows)
        IN  /\ (\E i \in 1..n : rows[i].benchmark) <=> settings.include_benchmarks
            /\ settings.include_benchmarks =>
                  /\ n >= 3
                  /\ rows[n - 2].ticker = <<"A","C","W","I">>
                  /\ rows[n - 1].ticker = <<"^","G","S","P","C">>
                  /\ rows[n].ticker = <<"^","O","M","X","C","2","5">>
                  /\ \A i \in 1..n : rows[i].benchmark <=> i > n - 3
            /\ ~settings.include_benchmarks => \A i \in 1..n : ~rows[i].benchmark

\* C16 witness: list_mode custom with benchmarks, one of the three benchmark rows a
\* placeholder, after the rows of the custom companies
C16_Witness ==
    /\ Done
    /\ settings.list_mode = "custom" /\ settings.include_benchmarks
    /\ Len(snapshot.assets) = 5
    /\ ~snapshot.assets[2].benchmark
    /\ snapshot.assets[3].benchmark /\ ~IsPlaceholder(snapshot.assets[3])
    /\ snapshot.assets[4].benchmark /\ IsPlaceholder(snapshot.assets[4])

(***************************************************************************)
(* Properties of the score calculator (specification SpecUnit)             *)
(***************************************************************************)
Returned(fn) == pc = "return" /\ call.fn = fn

Present(metrics, key) == metrics[key] # None

NoMetric(metrics) == \A key \in METRIC_KEYS : ~Present(metrics, key)

\* C4: with none of the six metric inputs available, _compute_score returns
\* score_total 0.0 and data_completeness_pct 0.
C4_NoInputsScoreZero ==
    (Returned("_compute_score") /\ NoMetric(call.metrics))
        => (ret.score_total = 0 /\ ret.data_completeness_pct = 0)

\* the weight of the evaluated components as C5 states it
SpecWeight(metrics) ==
    25 + (IF Present(metrics, "revenue_yoy_pct") THEN 15 ELSE 0)
       + (IF Present(metrics, "eps_yoy_pct") THEN 15 ELSE 0)
       + (IF Present(metrics, "op_margin_latest_pct") /\ Present(metrics, "op_margin_prior_pct")
          THEN 25 ELSE 0)
       + (IF Present(metrics, "fcf_yoy_pct") THEN 10 ELSE 0)
       + (IF Present(metrics, "net_debt_to_ebitda") THEN 10 ELSE 0)

\* the component entries C5 allows: guidance, and one per metric that is present
SpecComponentNames(metrics) ==
    {"guidance"}
    \cup (IF Present(metrics, "revenue_yoy_pct") THEN {"growth_revenue"} ELSE {})
    \cup (IF Present(metrics, "eps_yoy_pct") THEN {"growth_eps"} ELSE {})
    \cup (IF Present(metrics, "op_margin_latest_pct") /\ Present(metrics, "op_margin_prior_pct")
          THEN {"profit_margin_level", "profit_margin_yoy"} ELSE {})
    \cup (IF Present(metrics, "fcf_yoy_pct") THEN {"capital_fcf"} ELSE {})
    \cup (IF Present(metrics, "net_debt_to_ebitda") THEN {"capital_leverage"} ELSE {})

\* C5: for every metrics input the guidance component is exactly 12 points and its
\* weight 25 always counts; an absent metric adds neither a component entry nor
\* weight; data_completeness_pct = 25 + 15[revenue] + 15[EPS] + 25[both margins]
\* + 10[FCF] + 10[leverage], which is 100 exactly when all six inputs are present.
C5_Completeness ==
    Returned("_compute_score") =>
        /\ "guidance" \in DOMAIN ret.components
        /\ ret.components["guidance"] = 120
        /\ DOMAIN ret.components = SpecComponentNames(call.metrics)
        /\ ret.data_completeness_pct = 10 * SpecWeight(call.metrics)
        /\ ret.data_completeness_pct >= 250
        /\ (ret.data_completeness_pct = 1000)
              <=> (\A key \in METRIC_KEYS : Present(call.metrics, key))

\* C5 witness: the latest margin is known and the prior margin is not, everything else
\* is known: 75 percent
C5_Witness ==
    /\ Returned("_compute_score")
    /\ Present(call.metrics, "op_margin_latest_pct")
    /\ ~Present(call.metrics, "op_margin_prior_pct")
    /\ \A key \in METRIC_KEYS \ {"op_margin_prior_pct"} : Present(call.metrics, key)
    /\ ret.data_completeness_pct = 750
    /\ "profit_margin_level" \notin DOMAIN ret.components

\* the weights the specification fixes per component
SpecComponentWeight(name) ==
    CASE name = "growth_revenue" -> 15
      [] name = "growth_eps" -> 15
      [] name = "profit_margin_level" -> 12
      [] name = "profit_margin_yoy" -> 13
      [] name = "guidance" -> 25
      [] name = "capital_fcf" -> 10
      [] name = "capital_leverage" -> 10

\* sum of the point contributions (hundredths) and of the weights of the evaluated
\* components
PointSum(metrics) ==
    LET parts == ScoredComponents(metrics) IN SumSeq([i \in 1..Len(parts) |-> parts[i].s])

WeightSum(metrics) ==
    LET parts == ScoredComponents(metrics)
    IN  SumSeq([i \in 1..Len(parts) |-> SpecComponentWeight(parts[i].name)])

\* C6 as stated: the returned score_total equals 100 * (sum of points) / (sum of
\* weights) clamped to [0, 100], each component's points lie between 0 and its weight,
\* and score_total lies in [0, 100].
C6_ScoreIsQuotient ==
    Returned("_compute_score") =>
        LET points == PointSum(call.metrics)
            weights == WeightSum(call.metrics)
        IN  /\ \A i \in 1..Len(ScoredComponents(call.metrics)) :
                  LET p == ScoredComponents(call.metrics)[i]
                  IN  0 <= p.s /\ p.s <= 100 * SpecComponentWeight(p.name)
            /\ 0 <= points /\ points <= 100 * weights
            /\ ret.score_total * weights = 10 * points
            /\ 0 <= ret.score_total /\ ret.score_total <= 1000

\* C6 amended: the returned score_total is that quotient rounded to one decimal place
\* (it is a whole number of tenths, at most half a tenth away from the quotient).
C6_ScoreIsRoundedQuotient ==
    Returned("_compute_score") =>
        LET points == PointSum(call.metrics)
            weights == WeightSum(call.metrics)
            diff == ret.score_total * weights - 10 * points
        IN  /\ \A i \in 1..Len(ScoredComponents(call.metrics)) :
                  LET p == ScoredComponents(call.metrics)[i]
                  IN  0 <= p.s /\ p.s <= 100 * SpecComponentWeight(p.name)
            /\ 0 <= points /\ points <= 100 * weights
            /\ 2 * diff <= weights /\ -2 * diff <= weights
            /\ 0 <= ret.score_total /\ ret.score_total <= 1000

\* C6 witness: a quotient that is not a whole number of tenths (2430 / 40 = 60.75)
C6_Witness ==
    /\ Returned("_compute_score")
    /\ PointSum(call.metrics) = 2430 /\ WeightSum(call.metrics) = 40
    /\ ret.score_total \in {607, 608}

(***************************************************************************)
(* Properties of the grade mapping (specification SpecUnit)                *)
(***************************************************************************)
\* the label of the highest threshold the score (in tenths) reaches
SpecGrade(t) ==
    IF t >= 970 THEN "A+" ELSE IF t >= 930 THEN "A" ELSE IF t >= 900 THEN "A-"
    ELSE IF t >= 870 THEN "B+" ELSE IF t >= 830 THEN "B" ELSE IF t >= 800 THEN "B-"
    ELSE IF t >= 770 THEN "C+" ELSE IF t >= 730 THEN "C" ELSE IF t >= 700 THEN "C-"
    ELSE IF t >= 670 THEN "D+" ELSE IF t >= 630 THEN "D" ELSE IF t >= 600 THEN "D-"
    ELSE "F"

\* grades from worst to best
GradeOrder == <<"F", "D-", "D", "D+", "C-", "C", "C+", "B-", "B", "B+", "A-", "A", "A+">>

GradeRank(g) == CHOOSE i \in 1..Len(GradeOrder) : GradeOrder[i] = g

\* C7: _grade and to_grade are total over [0, 100] and return the label of the highest
\* threshold the score is greater than or equal to (boundaries inclusive);
\* grade(100) = A+, grade(90) = A-, grade(59.9) = F; a higher score never gets a worse
\* grade (the grade of a score is never worse than the grade of the score a tenth
\* below it).
C7_GradeMapping ==
    (pc = "return" /\ call.fn \in {"_grade", "to_grade"}) =>
        LET t == call.score[1]
            below == IF call.fn = "_grade" THEN _grade(<<t - 1, 10>>) ELSE to_grade(<<t - 1, 10>>)
        IN  /\ \E i \in 1..Len(GradeOrder) : GradeOrder[i] = ret
            /\ ret = SpecGrade(t)
            /\ t = 1000 => ret = "A+"
            /\ t = 900 => ret = "A-"
            /\ t = 599 => ret = "F"
            /\ t > 0 => GradeRank(ret) >= GradeRank(below)

\* C7 witness: both functions at the inclusive boundary 90
C7_Witness ==
    /\ pc = "return" /\ call.fn \in {"_grade", "to_grade"}
    /\ call.score = <<900, 10>>
    /\ ret = "A-"
    /\ _grade(call.score) = "A-" /\ to_grade(call.score) = "A-"
    /\ _grade(<<899, 10>>) = "B+" /\ to_grade(<<899, 10>>) = "B+"

(***************************************************************************)
(* Properties of the valuation label (specification SpecUnit)              *)
(***************************************************************************)
\* the label the specification gives a ratio of r hundredths
SpecLabel(r, style) ==
    IF style \in {"tech_hypergrowth", "tech_quality"}
    THEN (IF r <= 75 THEN "Undervalued" ELSE IF r >= 130 THEN "Overvalued" ELSE "Fair")
    ELSE (IF r <= 85 THEN "Undervalued" ELSE IF r >= 115 THEN "Overvalued" ELSE "Fair")

\* C9: _valuation_label returns "N/A" for a null ratio; for the styles tech_hypergrowth
\* and tech_quality "Undervalued" at ratio <= 0.75, "Overvalued" at ratio >= 1.30 and
\* "Fair" strictly between; for every other style "Undervalued" at ratio <= 0.85,
\* "Overvalued" at ratio >= 1.15 and "Fair" strictly between.
C9_ValuationBands ==
    Returned("_valuation_label") =>
        IF call.ratio = None THEN ret = "N/A"
        ELSE /\ Val(call.ratio)[2] = 100
             /\ ret = SpecLabel(Val(call.ratio)[1], call.style)

\* C9 witness: a ratio on the lower boundary of the wide band
C9_Witness ==
    /\ Returned("_valuation_label")
    /\ call.style = "tech_quality"
    /\ call.ratio = Some(<<75, 100>>)
    /\ ret = "Undervalued"
    /\ _valuation_label(Some(<<130, 100>>), "tech_quality") = "Overvalued"
    /\ _valuation_label(Some(<<85, 100>>), "industrials") = "Undervalued"
    /\ _valuation_label(Some(<<115, 100>>), "industrials") = "Overvalued"
    /\ _valuation_label(Some(<<76, 100>>), "tech_quality") = "Fair"

(***************************************************************************)
(* Properties of the asset universe (specification SpecUnit)               *)
(***************************************************************************)
\* the comma-separated parts of raw, each with the position of the comma before it
SpecParts(raw) ==
    LET cuts == {0} \cup {i \in 1..Len(raw) : raw[i] = ","} \cup {Len(raw) + 1}
        nxt(c) == CHOOSE d \in cuts : d > c /\ \A e \in cuts : e > c => d <= e
    IN  {<<c, SubSeq(raw, c + 1, nxt(c) - 1)>> : c \in cuts \ {Len(raw) + 1}}

\* the part without its leading and trailing blanks
SpecTrim(part) ==
    LET inked == {i \in 1..Len(part) : part[i] \notin {" ", "\t"}}
        lo == CHOOSE i \in inked : \A j \in inked : i <= j
        hi == CHOOSE i \in inked : \A j \in inked : i >= j
    IN  IF inked = {} THEN <<>> ELSE SubSeq(part, lo, hi)

\* where the ticker first occurs among the parts of raw
FirstSeen(raw, ticker) ==
    LET at == {p[1] : p \in {q \in SpecParts(raw) : Upper(SpecTrim(q[2])) = ticker}}
    IN  CHOOSE c \in at : \A d \in at : c <= d

\* C14: in list_mode custom without benchmarks the resolved universe is exactly the
\* custom_tickers string split on commas, each part trimmed and upper-cased, empty
\* parts dropped, duplicates removed keeping the first occurrence; each descriptor has
\* name equal to its ticker and index label "Custom"; the resolved tickers are pairwise
\* distinct.
C14_CustomUniverse ==
    (Returned("_resolve_assets") /\ call.cfg.list_mode = "custom"
        /\ ~call.cfg.include_benchmarks) =>
        LET raw == call.cfg.custom_tickers
            wanted == {Upper(SpecTrim(p[2])) : p \in SpecParts(raw)} \ {<<>>}
        IN  /\ {ret[i].ticker : i \in 1..Len(ret)} = wanted
            /\ Len(ret) = Cardinality(wanted)
            /\ \A i \in 1..Len(ret) :
                  /\ ret[i].name = ret[i].ticker
                  /\ ret[i].index_name = "Custom"
                  /\ ~ret[i].benchmark
            /\ \A i, j \in 1..Len(ret) :
                  i < j => /\ ret[i].ticker # ret[j].ticker
                           /\ FirstSeen(raw, ret[i].ticker) < FirstSeen(raw, ret[j].ticker)

\* C14 witness: "abc,ABC, xyz" resolves to [ABC, XYZ]
C14_Witness ==
    /\ Returned("_resolve_assets")
    /\ call.cfg.list_mode = "custom" /\ ~call.cfg.include_benchmarks
    /\ call.cfg.custom_tickers = <<"a","b","c",",","A","B","C",","," ","x","y","z">>
    /\ Len(ret) = 2
    /\ ret[1].ticker = <<"A","B","C">> /\ ret[2].ticker = <<"X","Y","Z">>
    /\ ret[1].name = <<"A","B","C">> /\ ret[1].index_name = "Custom"

\* the companies among the resolved descriptors
Companies(resolved) == SelectSeq(resolved, LAMBDA a : ~a.benchmark)

\* how often the ticker occurs among the descriptors
TickerCount(resolved, ticker) ==
    Cardinality({i \in 1..Len(resolved) : resolved[i].ticker = ticker})

\* C15: in list_mode extend the resolved company list is the fixed default company
\* set, in its fixed order, followed by the parsed custom tickers in their parsed
\* order; a custom ticker that also occurs in the default set is not removed and
\* appears a second time.
C15_ExtendUniverse ==
    (Returned("_resolve_assets") /\ call.cfg.list_mode = "extend") =>
        LET companies == Companies(ret)
            custom == _resolve_assets([call.cfg EXCEPT !.list_mode = "custom",
                                                       !.include_benchmarks = FALSE])
            n == Len(DEFAULT_COMPANY_ASSETS)
        IN  /\ n = 20
            /\ Len(companies) = n + Len(custom)
            /\ SubSeq(companies, 1, n) = DEFAULT_COMPANY_ASSETS
            /\ SubSeq(companies, n + 1, Len(companies)) = custom
            /\ \A i \in 1..Len(custom) :
                  TickerCount(companies, custom[i].ticker)
                     = 1 + TickerCount(DEFAULT_COMPANY_ASSETS, custom[i].ticker)

\* C15 witness: the custom ticker "v" is Visa's ticker and is resolved twice
C15_Witness ==
    /\ Returned("_resolve_assets")
    /\ call.cfg.list_mode = "extend"
    /\ call.cfg.custom_tickers = <<"b", ",", "v">>
    /\ Len(Companies(ret)) = 22
    /\ TickerCount(ret, <<"V">>) = 2
    /\ ret[13].ticker = <<"V">> /\ ret[13].index_name = "S&P 500"
    /\ ret[21].ticker = <<"B">> /\ ret[22].ticker = <<"V">> /\ ret[22].index_name = "Custom"

(***************************************************************************)
(* Properties of the CSV scorer (specification SpecUnit)                   *)
(***************************************************************************)
\* C17: for every combination of present and absent values of the six numeric inputs
\* and a guidance_change of "unchanged", scorecard.compute_row yields the same
\* score_total and grade as engine._compute_score on the same values.
C17_BatchMatchesLive ==
    (Returned("compute_row") /\ call.row.guidance_change = Some("unchanged")) =>
        LET live == _compute_score(RowMetrics(call.row), call.live_err)
        IN  /\ ret.score_total = Some(live.score_total)
            /\ ret.grade = live.grade

\* C20: the data_completeness_pct compute_row writes is the sum of the weights of the
\* components that were evaluated, as a percentage of the 100-point weight budget.
C20_BatchCompleteness ==
    Returned("compute_row") =>
        LET evaluated == RowComponents(call.row)
        IN  ret.data_completeness_pct
               = 10 * SumSeq([i \in 1..Len(evaluated) |-> evaluated[i][2]])

(***************************************************************************)
(* Properties of the sector valuation assessor (specification SpecUnit)    *)
(***************************************************************************)
\* the row the live engine computes for the company from the same data
LiveRow(info) == _compute_company(DEFAULT_COMPANY_ASSETS[1], info)

\* C18: for the same sector, industry, score and trailing P/E, P/B and EV/EBITDA values,
\* valuation_assessment.compute and engine._compute_company choose the same valuation
\* model, the same actual multiple, the same fair multiple and the same assessment
\* label.
C18_AssessorMatchesLive ==
    (Returned("compute") /\ call.r.ticker_known
        /\ call.r.score_total = LiveRow(call.info).score_total) =>
        LET live == LiveRow(call.info)
        IN  /\ ret.valuation_model = live.valuation_model
            /\ ret.actual_multiple = live.actual_multiple
            /\ ret.fair_multiple = live.fair_multiple
            /\ ret.price_assessment = live.assessment

(***************************************************************************)
(* Properties of the coordinator (specification SpecCoord)                 *)
(***************************************************************************)
\* C19: after every refresh: if the snapshot computation failed, the refresh
\* returned the snapshot of the most recent refresh that computed one (or the
\* one the store file held) when that is non-empty, and raised UpdateFailed
\* when there is none; if the computation succeeded, the refresh returned the
\* fresh snapshot and the store now answers a load with it.
C19_RefreshFallback ==
    coord.refreshes > 0 =>
        IF coord.computed
        THEN /\ coord.result = ReturnsData(FreshSnapshot(coord.refreshes))
             /\ async_load(coord.store).state.snapshot = FreshSnapshot(coord.refreshes)
        ELSE IF coord.last_ok # <<>>
             THEN coord.result = ReturnsData(coord.last_ok)
             ELSE coord.result = UpdateFailed

\* a failed refresh, two refreshes after the last computed snapshot (whose
\* write had failed), returns that snapshot and not the older one in the file
C19_Witness ==
    /\ coord.refreshes = 4
    /\ ~coord.computed
    /\ coord.result = ReturnsData(FreshSnapshot(2))
    /\ coord.store.file = DictFile([updated_at |-> 1, snapshot |-> FreshSnapshot(1)])

(***************************************************************************)
(* Properties of the band function (specification SpecUnit)                *)
(***************************************************************************)
IsPiecewiseCall == Returned("_piecewise") \/ Returned("piecewise_score")

FirstPair(bands) == bands[1]
LastPair(bands) == bands[Len(bands)]

AboveEvery(value, bands) == \A i \in 1..Len(bands) : value > bands[i][1]

SpecLine(intercept, slope, score) == intercept * 1000 + slope * score

SpecFairMultiple(score, model, style) ==
    IF model = "pe"
    THEN CASE style = "tech_hypergrowth" -> SpecLine(140, 420, score)
           [] style = "tech_quality" -> SpecLine(110, 340, score)
           [] style = "healthcare" -> SpecLine(90, 300, score)
           [] OTHER -> SpecLine(70, 260, score)
    ELSE CASE model = "pb" -> SpecLine(6, 18, score)
           [] model = "ev_ebitda" -> SpecLine(30, 110, score)
           [] OTHER -> SpecLine(100, 0, score)

\* C22: _fair_multiple returns the benchmark override when one is present and
\* the model is PE; otherwise the line of its model and style (PE: 14 + 0.42 s
\* for tech_hypergrowth, 11 + 0.34 s for tech_quality, 9 + 0.30 s for
\* healthcare, 7 + 0.26 s for any other style; PB: 0.6 + 0.018 s; EV/EBITDA:
\* 3 + 0.11 s; any other model: 10); the result is positive for every score in
\* [0, 100].
C22_FairMultiple ==
    Returned("_fair_multiple") =>
        /\ IF call.bench_fair_pe # None /\ call.model = "pe"
           THEN ret = Val(call.bench_fair_pe)
           ELSE ret = SpecFairMultiple(call.score, call.model, call.style)
        /\ ret > 0

\* PE / tech_hypergrowth at score 100 without an override: 56.0
C22_Witness ==
    /\ Returned("_fair_multiple")
    /\ call.model = "pe" /\ call.style = "tech_hypergrowth"
    /\ call.score = 1000 /\ call.bench_fair_pe = None
    /\ ret = 560000

(***************************************************************************)
(* Properties of the multiple selection (specification SpecUnit)           *)
(***************************************************************************)
Available(mult) == mult # None /\ Val(mult) > 0

\* the trailing multiple of a model tag
MultipleOf(info, tag) ==
    CASE tag = "PE" -> info.trailing_pe
      [] tag = "PB" -> info.price_to_book
      [] tag = "EV/EBITDA" -> info.enterprise_to_ebitda

\* the tag the selection rule reports: the sector's model when its multiple is
\* available, else the first available of P/E, P/B, EV/EBITDA, else the sector's model
SpecTag(info) ==
    LET sel == ModelTag(_model_for_sector(info.sector, info.industry))
    IN  IF Available(MultipleOf(info, sel)) THEN sel
        ELSE IF Available(info.trailing_pe) THEN "PE"
        ELSE IF Available(info.price_to_book) THEN "PB"
        ELSE IF Available(info.enterprise_to_ebitda) THEN "EV/EBITDA"
        ELSE sel

AnyAvailable(info) ==
    \/ Available(info.trailing_pe)
    \/ Available(info.price_to_book)
    \/ Available(info.enterprise_to_ebitda)

\* C23 as stated: the selection rule, and a non-null actual_multiple is always
\* positive.
C23_ActualMultiplePositive ==
    Returned("_compute_company") =>
        /\ ret.valuation_model = SpecTag(call.info)
        /\ ret.actual_multiple = None <=> ~AnyAvailable(call.info)
        /\ ret.actual_multiple # None =>
               /\ Val(ret.actual_multiple) > 0
               /\ Val(ret.actual_multiple)
                      = Round(Val(MultipleOf(call.info, ret.valuation_model)), 10)

\* C23: a multiple <= 0 is unavailable; the reported model is the sector's
\* model when its multiple is available, else the first available of P/E,
\* P/B, EV/EBITDA; actual_multiple is null exactly when no multiple is
\* available, and otherwise is the multiple named by the reported model, which
\* is positive, rounded to two decimals (so the reported value is never
\* negative but can be 0.00).
C23_MultipleSelection ==
    Returned("_compute_company") =>
        /\ ret.valuation_model = SpecTag(call.info)
        /\ ret.actual_multiple = None <=> ~AnyAvailable(call.info)
        /\ ret.actual_multiple # None =>
               /\ Available(MultipleOf(call.info, ret.valuation_model))
               /\ Val(ret.actual_multiple)
                      = Round(Val(MultipleOf(call.info, ret.valuation_model)), 10)
               /\ Val(ret.actual_multiple) >= 0

\* a financial company whose P/B is 0 and whose EV/EBITDA is negative: P/E is reported
C23_Witness ==
    /\ Returned("_compute_company")
    /\ call.info.sector = {"financial"}
    /\ call.info.price_to_book = Some(0)
    /\ call.info.enterprise_to_ebitda = Some(-5)
    /\ call.info.trailing_pe = Some(12000)
    /\ ret.valuation_model = "PE"
    /\ ret.actual_multiple = Some(1200)

(***************************************************************************)
(* Properties of the model selection (specification SpecUnit)              *)
(***************************************************************************)
\* text contains word, whatever the case of its letters (word is in lower case)
HasWord(text, word) ==
    \E i \in 1..(Len(text) - Len(word) + 1) :
        \A j \in 1..Len(word) : LowerChar(text[i + j - 1]) = word[j]

WordText(name) == (CHOOSE kw \in MODEL_KEYWORDS : kw[1] = name)[2]

HasAny(text, names) == \E n \in names : HasWord(text, WordText(n))

\* C24: _model_for_sector is first-match-wins in this order: industry with
\* "credit services" or "payment" gives PE; sector with "financial", "bank" or
\* "insurance" gives PB; sector with "energy", "oil" or "gas" gives EV/EBITDA;
\* sector with "industrial", "transport" or "shipping" gives EV/EBITDA; else PE;
\* case is ignored and the result is one of the three models.
C24_ModelForSector ==
    Returned("_model_for_sector") =>
        /\ ret \in {"pe", "pb", "ev_ebitda"}
        /\ ret = IF HasAny(call.industry, {"credit services", "payment"}) THEN "pe"
                 ELSE IF HasAny(call.sector, {"financial", "bank", "insurance"}) THEN "pb"
                 ELSE IF HasAny(call.sector, {"energy", "oil", "gas"}) THEN "ev_ebitda"
                 ELSE IF HasAny(call.sector, {"industrial", "transport", "shipping"})
                      THEN "ev_ebitda"
                 ELSE "pe"

\* "Financial Services" with the industry "Credit Services": PE, not PB
C24_Witness ==
    /\ Returned("_model_for_sector")
    /\ call.sector = <<"F","i","n","a","n","c","i","a","l"," ","S","e","r","v","i","c","e","s">>
    /\ call.industry = <<"C","r","e","d","i","t"," ","S","e","r","v","i","c","e","s">>
    /\ ret = "pe"

(***************************************************************************)
(* Properties of the opportunity score (specification Spec)                *)
(***************************************************************************)
\* the bonus in points
SpecBonus(assessment) ==
    CASE assessment = "Undervalued" -> 30
      [] assessment = "Fair" -> 10
      [] assessment \in {"Overvalued", "N/A"} -> -20

\* C25: in every successfully computed company row of a Snapshot,
\* opportunity_score = score_total + bonus with bonus +30 for Undervalued, +10
\* for Fair and -20 for Overvalued and N/A, and score_total is the score of the
\* company's metrics, without the bonus.
C25_OpportunityScore ==
    Done =>
        \A i \in 1..Len(snapshot.assets) :
            LET row == snapshot.assets[i]
            IN  IsRealCompany(row) =>
                    /\ row.opportunity_score
                           = Val(row.score_total) + 10 * SpecBonus(row.assessment)
                    /\ Val(row.score_total)
                           = _compute_score(SourceBags[feed[i]], 0).score_total

\* a Snapshot with an undervalued, an overvalued and an unassessed company
C25_Witness ==
    /\ Done
    /\ \A a \in {"Undervalued", "Overvalued", "N/A"} :
          \E i \in 1..Len(snapshot.assets) :
              /\ IsRealCompany(snapshot.assets[i])
              /\ snapshot.assets[i].assessment = a
              /\ snapshot.assets[i].opportunity_score
                    = Val(snapshot.assets[i].score_total) + 10 * SpecBonus(a)

(***************************************************************************)
(* Properties of the earnings resolver (specification SpecUnit)            *)
(***************************************************************************)
\* the positive timestamps among the fields
PositiveCandidates(info) ==
    {Val(info[i]) : i \in {j \in 1..Len(info) : info[j] # None /\ Val(info[j]) > 0}}

\* C26: _next_earnings_from_info returns ("", null) when no field holds a
\* positive timestamp; otherwise the earliest candidate that is >= the current
\* time when there is one, else the latest candidate; the returned timestamp
\* is one of the positive candidates.
C26_NextEarnings ==
    Returned("_next_earnings_from_info") =>
        LET cands == PositiveCandidates(call.fields)
            ahead == {ts \in cands : ts >= NOW_TS}
        IN  IF cands = {} THEN ret = <<IsoFormat(None), None>>
            ELSE /\ ret[2] # None
                 /\ Val(ret[2]) \in cands
                 /\ ret[1] = IsoFormat(ret[2])
                 /\ IF ahead # {}
                    THEN Val(ret[2]) \in ahead /\ \A ts \in ahead : Val(ret[2]) <= ts
                    ELSE \A ts \in cands : Val(ret[2]) >= ts

\* a past, a discarded and two coming candidates: the one at the current time is chosen
C26_Witness ==
    /\ Returned("_next_earnings_from_info")
    /\ call.fields = <<Some(100), Some(-7), Some(300), Some(NOW_TS)>>
    /\ ret[2] = Some(NOW_TS)

(***************************************************************************)
(* Properties of the score range (specification SpecUnit)                  *)
(***************************************************************************)
BetterThanBPlus == {"A+", "A", "A-"}

\* C27: for every metrics input the score_total of _compute_score lies in
\* [12.0, 87.0], the quotient it is rounded from lies in [0, 100] before the
\* clamp, and the grade is never better than "B+".
C27_ScoreRange ==
    Returned("_compute_score") =>
        /\ 120 <= ret.score_total /\ ret.score_total <= 870
        /\ 0 <= PointSum(call.metrics)
        /\ PointSum(call.metrics) <= 100 * WeightSum(call.metrics)
        /\ ret.grade \notin BetterThanBPlus

\* every metric in its top band: 87.0 and "B+"
C27_Witness ==
    /\ Returned("_compute_score")
    /\ \A k \in DOMAIN call.metrics : call.metrics[k] # None
    /\ ret.score_total = 870
    /\ ret.grade = "B+"

(***************************************************************************)
(* Properties of the grade of a score (specification SpecUnit)             *)
(***************************************************************************)
\* C28: in every result of _compute_score the grade is the grade mapping
\* applied to the score_total that is returned (the total rounded to one
\* decimal place).
C28_GradeOfReportedScore ==
    Returned("_compute_score") => ret.grade = _grade(<<ret.score_total, 10>>)

(***************************************************************************)
(* Properties of the options flow (specification SpecUnit)                 *)
(***************************************************************************)
\* C29: a submission with list_mode custom whose custom_tickers parses to no
\* ticker is answered with the form and the error custom_tickers_required;
\* no entry is created for it.
C29_NoEmptyCustomUniverse ==
    (/\ Returned("async_step_init")
     /\ call.user_input # None
     /\ Val(call.user_input).list_mode = "custom"
     /\ _parse_custom_tickers(Val(call.user_input).custom_tickers) = <<>>) =>
        /\ ret.type = "form"
        /\ ret.errors = Some("custom_tickers_required")

(***************************************************************************)
(* Properties of the refresh_data service (specification SpecHass)         *)
(***************************************************************************)
\* C30: after any sequence of set-ups and unloads, a refresh_data call whose
\* entry_id is not empty and is not the id of a loaded entry returns
\* {ok: false, error: entry_not_found}, asks no coordinator to refresh and
\* does not raise.
C30_UnknownEntry ==
    (hass.last # <<>> /\ hass.last.entry_id # <<>>
        /\ hass.last.entry_id \notin hass.last.loaded) =>
        /\ ~hass.last.result.raised
        /\ ~hass.last.result.ok
        /\ hass.last.result.error = "entry_not_found"
        /\ hass.last.result.requested = {}

====
